---- MODULE Spec2Model ----
(***************************************************************************)
(* A model of gofeedforward: Core / Layer (layer.go), Network              *)
(* (network.go), the numeric helpers (math: Sigmoid, DotProduct,           *)
(* CalcError, SquaredError) and the Trainer (trainer.go).                  *)
(*                                                                         *)
(* float64 values are modelled as fixed-point integers with denominator    *)
(* Scale: the integer v stands for the real number v / Scale.  A nil       *)
(* slice is the empty sequence; a nil error is NoErr.                      *)
(***************************************************************************)
EXTENDS Integers, Sequences, FiniteSets, TLC

\* ------------------------------------------------------------------ bounds

\* The largest number of training examples in the caller's data.
MaxData == 2

\* The model stops starting new passes once Train's iteration counter has
\* reached this value (the code has no such cap).
MaxIterations == 3

\* The largest number of callbacks registered on one Trainer, over its three
\* handler lists.
MaxHandlers == 3

\* The number of outcomes of the random number generator the model draws
\* Randomize's weights from.
MaxSeed == 2

\* The largest ShuffleRounds a Trainer is configured with.
MaxShuffleRounds == 1

\* The longest input vector a caller gives to Network.Process.
MaxInputLen == 3

\* The largest number of layer widths given to MakeNetwork.
MaxSizes == 3

\* The largest layer width given to MakeNetwork.
MaxWidth == 4

\* The calls a caller makes one after the other, its last call of Train or
\* OneIteration not counted.
MaxCalls == 3

\* --------------------------------------------------------- fixed-point reals

\* Denominator of the fixed-point representation: Scale stands for 1.0.
Scale == 10 * 10 * 10

NoErr == "nil"

Nil == <<>>

\* n / d rounded to the nearest integer, halves away from zero (d > 0).
RoundDiv(n, d) ==
    IF n >= 0 THEN (2 * n + d) \div (2 * d) ELSE -((2 * (-n) + d) \div (2 * d))

\* The float64 product a * b.
Mul(a, b) == RoundDiv(a * b, Scale)

\* The float64 NaN, which 0.0 / 0.0 gives: a number no other value of the
\* model comes near.
NaN == Scale * Scale * Scale

\* The float64 quotient a / float64(n), n an integer count: for n = 0 the
\* dividend is the zero total of no examples, and 0.0 / 0.0 is NaN.
DivInt(a, n) == IF n = 0 THEN NaN ELSE RoundDiv(a, n)

\* 1000 * 1/(1+e^-x) at x = 0, 0.5, 1, ..., 7.
SigmoidTable ==
    <<500, 622, 731, 818, 881, 924, 953, 971, 982, 989, 993, 996, 998, 998, 999>>

SigmoidPos(x) ==
    LET step == Scale \div 2
        lo == x \div step
        frac == x % step
    IN  IF lo + 2 > Len(SigmoidTable)
        THEN SigmoidTable[Len(SigmoidTable)]
        ELSE SigmoidTable[lo + 1]
             + ((SigmoidTable[lo + 2] - SigmoidTable[lo + 1]) * frac) \div step

\* Sigmoid: 1.0 / (1.0 + math.Exp(-input)), by table and linear interpolation.
Sigmoid(input) ==
    IF input >= 0 THEN SigmoidPos(input) ELSE Scale - SigmoidPos(-input)

RECURSIVE DotSum(_, _, _)
DotSum(left, right, i) ==
    IF i = 0 THEN 0 ELSE DotSum(left, right, i - 1) + Mul(left[i], right[i])

\* DotProduct: the sum of left[i] * right[i]; an error when the lengths differ.
DotProduct(left, right) ==
    IF Len(left) # Len(right)
    THEN [val |-> 0, err |-> "dot"]
    ELSE [val |-> DotSum(left, right, Len(left)), err |-> NoErr]

\* CalcError: the elementwise squared difference of expected and actual.
CalcError(expected, actual) ==
    IF Len(expected) # Len(actual)
    THEN [val |-> Nil, err |-> "calcerror"]
    ELSE [val |-> [i \in 1..Len(expected) |->
                      Mul(expected[i] - actual[i], expected[i] - actual[i])],
          err |-> NoErr]

\* A faulty Accumulate: the new vector replaces the accumulated one.
Accumulate_Replace(sse, new) == [i \in 1..Len(sse) |-> new[i]]

\* SquaredError.Accumulate: sse[i] += new[i] for every index of sse.
Accumulate(sse, new) == [i \in 1..Len(sse) |-> sse[i] + new[i]]

\* SquaredError.Average: sse[i] = sse[i] / float64(nexample).
Average(sse, nexample) == [i \in 1..Len(sse) |-> DivInt(sse[i], nexample)]

RECURSIVE SumTo(_, _)
SumTo(sse, i) == IF i = 0 THEN 0 ELSE SumTo(sse, i - 1) + sse[i]

\* SquaredError.Combine: the sum of the entries (0 for a nil vector).
Combine(sse) == SumTo(sse, Len(sse))

RECURSIVE TotalFrom(_, _, _)
TotalFrom(s, k, sum) ==
    IF k > Len(s) THEN sum ELSE TotalFrom(s, k + 1, Accumulate(sum, s[k]))

\* AllErrors.Total: a zero vector as long as s[0], every vector of s
\* accumulated into it.
AllErrors_Total(s) == TotalFrom(s, 1, [i \in 1..Len(s[1]) |-> 0])

\* A faulty AllErrors.Average: the total is divided by the vectors' length.
AllErrors_Average_ByLength(s) ==
    LET avg == AllErrors_Total(s)
    IN  [idx \in 1..Len(avg) |-> DivInt(avg[idx], Len(s[1]))]

\* AllErrors.Average: every entry of the total divided by float64(len(s)).
AllErrors_Average(s) ==
    LET avg == AllErrors_Total(s)
    IN  [idx \in 1..Len(avg) |-> DivInt(avg[idx], Len(s))]

\* ------------------------------------------------------------------- Core

\* MakeCore: outputs rows of inputs zeros.
MakeCore(inputs, outputs) == [r \in 1..outputs |-> [c \in 1..inputs |-> 0]]

\* Core.InputSize: len(c[0]).
InputSize(c) == Len(c[1])

\* Core.OutputSize: len(c).
OutputSize(c) == Len(c)

\* A faulty Core.Process: the row lengths are never compared with the input's.
Core_Process_Unchecked(c, inputs) ==
    [val |-> [idx \in 1..Len(c) |-> DotProduct(inputs, c[idx]).val], err |-> NoErr]

\* A faulty Core.Process: Sigmoid is applied to every dot product.
Core_Process_Squashed(c, inputs) ==
    IF \E idx \in 1..Len(c) : Len(c[idx]) # Len(inputs)
    THEN [val |-> [idx \in 1..Len(c) |-> 0], err |-> "shape"]
    ELSE [val |-> [idx \in 1..Len(c) |-> Sigmoid(DotProduct(inputs, c[idx]).val)],
          err |-> NoErr]

\* Core.Process: one dot product per row; stops with an error at the first row
\* whose length differs from the input's.
Core_Process(c, inputs) ==
    LET bad == {idx \in 1..Len(c) : Len(c[idx]) # Len(inputs)}
        first == CHOOSE idx \in bad : \A o \in bad : idx <= o
    IN  IF bad = {}
        THEN [val |-> [idx \in 1..Len(c) |-> DotProduct(inputs, c[idx]).val],
              err |-> NoErr]
        ELSE [val |-> [idx \in 1..Len(c) |->
                          IF idx < first THEN DotProduct(inputs, c[idx]).val ELSE 0],
              err |-> "shape"]

\* A faulty Core.Add: the other matrix is subtracted.
Core_Add_Subtracts(c, other) ==
    IF InputSize(c) # InputSize(other) \/ OutputSize(c) # OutputSize(other)
    THEN [val |-> Nil, err |-> "add"]
    ELSE [val |-> [row \in 1..Len(c) |->
                      [col \in 1..Len(c[row]) |-> c[row][col] - other[row][col]]],
          err |-> NoErr]

\* Core.Add: a new Core, the elementwise sum; an error when the shapes differ.
Core_Add(c, other) ==
    IF InputSize(c) # InputSize(other) \/ OutputSize(c) # OutputSize(other)
    THEN [val |-> Nil, err |-> "add"]
    ELSE [val |-> [row \in 1..Len(c) |->
                      [col \in 1..Len(c[row]) |-> c[row][col] + other[row][col]]],
          err |-> NoErr]

\* One sample of rand.Float64() - 0.5, a value in [-0.5, 0.5): the one outcome
\* `seed` of the generator gives the entry.
RandomWeight(seed, layer, row, col) ==
    ((seed * 389 + layer * 211 + row * 97 + col * 61) % Scale) - Scale \div 2

\* Core.Randomize: every entry is overwritten by a fresh random sample.
Core_Randomize(c, seed, layer) ==
    [row \in 1..Len(c) |->
        [col \in 1..Len(c[row]) |-> RandomWeight(seed, layer, row, col)]]

\* ------------------------------------------------------------------ Layer

\* A faulty MakeLayer: the weight matrix has no bias column.
MakeLayer_NoBias(inputs, outputs) ==
    [Weights |-> MakeCore(inputs, outputs), Inputs |-> Nil, Outputs |-> Nil]

\* MakeLayer: a zero weight matrix with one extra (bias) column.
MakeLayer(inputs, outputs) ==
    [Weights |-> MakeCore(inputs + 1, outputs), Inputs |-> Nil, Outputs |-> Nil]

\* A faulty Layer.Process: the weights are multiplied with the inputs the layer
\* had stored before the call, when it had stored any.
Layer_Process_Stale(l, inputs) ==
    LET l1 == [l EXCEPT !.Inputs = inputs]
        biasedInputs == Append(IF l.Inputs # Nil THEN l.Inputs ELSE inputs, Scale)
        r == Core_Process(l.Weights, biasedInputs)
        outputs == [idx \in 1..Len(r.val) |-> Sigmoid(r.val[idx])]
    IN  IF r.err # NoErr
        THEN [layer |-> l1, val |-> Nil, err |-> r.err]
        ELSE [layer |-> [l1 EXCEPT !.Outputs = outputs], val |-> outputs, err |-> NoErr]

\* Layer.Process: stores the inputs, appends the bias input 1.0, multiplies,
\* applies Sigmoid and stores the outputs.
Layer_Process(l, inputs) ==
    LET l1 == [l EXCEPT !.Inputs = inputs]
        biasedInputs == Append(inputs, Scale)
        r == Core_Process(l.Weights, biasedInputs)
        outputs == [idx \in 1..Len(r.val) |-> Sigmoid(r.val[idx])]
    IN  IF r.err # NoErr
        THEN [layer |-> l1, val |-> Nil, err |-> r.err]
        ELSE [layer |-> [l1 EXCEPT !.Outputs = outputs], val |-> outputs, err |-> NoErr]

\* Layer.UpdateWeights: l.Weights, err = l.Weights.Add(updates).
Layer_UpdateWeights(l, updates) ==
    LET r == Core_Add(l.Weights, updates)
    IN  [layer |-> [l EXCEPT !.Weights = r.val], err |-> r.err]

\* ---------------------------------------------------------------- Network

RECURSIVE MakeLayers(_, _)
MakeLayers(sizes, i) ==
    IF i < 2 THEN <<>>
    ELSE Append(MakeLayers(sizes, i - 1), MakeLayer(sizes[i - 1], sizes[i]))

\* MakeNetwork: one layer per adjacent pair of sizes.
MakeNetwork(sizes) == [Layers |-> MakeLayers(sizes, Len(sizes)), Outputs |-> Nil]

\* Network.InputSize: the first layer's column count minus the bias column.
Network_InputSize(n) == InputSize(n.Layers[1].Weights) - 1

\* Network.OutputSize: the last layer's row count.
Network_OutputSize(n) == OutputSize(n.Layers[Len(n.Layers)].Weights)

\* Network.Randomize: Layer.Randomize, that is Core.Randomize, on every layer.
Network_Randomize(n, seed) ==
    [n EXCEPT !.Layers = [i \in 1..Len(n.Layers) |->
        [n.Layers[i] EXCEPT !.Weights = Core_Randomize(@, seed, i)]]]

RECURSIVE ProcessFrom(_, _, _)
ProcessFrom(n, idx, temp) ==
    IF idx > Len(n.Layers)
    THEN [net |-> [n EXCEPT !.Outputs = temp], val |-> temp, err |-> NoErr]
    ELSE LET r == Layer_Process(n.Layers[idx], temp)
             n1 == [n EXCEPT !.Layers[idx] = r.layer]
         IN  IF r.err # NoErr
             THEN [net |-> n1, val |-> Nil, err |-> r.err]
             ELSE ProcessFrom(n1, idx + 1, r.val)

\* A faulty Network.Process: the cached Outputs are not cleared first.
Network_Process_Stale(n, inputs) == ProcessFrom(n, 1, inputs)

\* Network.Process: clears the cached Outputs, feeds the inputs through the
\* layers in order, and caches and returns the last layer's outputs.
Network_Process(n, inputs) == ProcessFrom([n EXCEPT !.Outputs = Nil], 1, inputs)

\* ---------------------------------------------------------------- Trainer

RECURSIVE SumSeq(_)
SumSeq(s) == IF s = <<>> THEN 0 ELSE s[1] + SumSeq(Tail(s))

\* calculateDeltas: for every input j of `layer` (the next layer), the sum over
\* nextDeltaIdx and over weightIdx of nextDeltas[nextDeltaIdx] *
\* layer.Weights[weightIdx][j], times the stored input and one minus it.
calculateDeltas(nextDeltas, layer) ==
    [nextLayerInputIdx \in 1..Len(layer.Inputs) |->
        LET nd == Len(nextDeltas)
            nw == Len(layer.Weights)
            terms == [k \in 1..(nd * nw) |->
                         Mul(nextDeltas[((k - 1) \div nw) + 1],
                             layer.Weights[((k - 1) % nw) + 1][nextLayerInputIdx])]
            sum == SumSeq(terms)
        IN  Mul(Mul(sum, layer.Inputs[nextLayerInputIdx]),
                Scale - layer.Inputs[nextLayerInputIdx])]

\* A faulty calculateUpdate: a learning rate of 0 is taken to be the default.
calculateUpdate_Defaulted(layer, deltas, alpha) ==
    LET biasedInputs == Append(layer.Inputs, Scale)
        rate == IF alpha = 0 THEN Scale \div 10 ELSE alpha
    IN  [row \in 1..Len(layer.Weights) |->
            [col \in 1..Len(layer.Weights[row]) |->
                Mul(Mul(biasedInputs[col], deltas[row]), -rate)]]

\* A faulty calculateUpdate: the bias input is left out, the last column of
\* the update staying zero.
calculateUpdate_NoBias(layer, deltas, alpha) ==
    [row \in 1..Len(layer.Weights) |->
        [col \in 1..Len(layer.Weights[row]) |->
            IF col <= Len(layer.Inputs)
            THEN Mul(Mul(layer.Inputs[col], deltas[row]), -alpha)
            ELSE 0]]

\* A faulty calculateUpdate: the update has a column for every input of the
\* layer and none for the bias.
calculateUpdate_Unbiased(layer, deltas, alpha) ==
    [row \in 1..Len(layer.Weights) |->
        [col \in 1..Len(layer.Inputs) |->
            Mul(Mul(layer.Inputs[col], deltas[row]), -alpha)]]

\* calculateUpdate: result[row][col] = biasedInputs[col] * deltas[row] * -alpha.
calculateUpdate(layer, deltas, alpha) ==
    LET biasedInputs == Append(layer.Inputs, Scale)
    IN  [row \in 1..Len(layer.Weights) |->
            [col \in 1..Len(layer.Weights[row]) |->
                Mul(Mul(biasedInputs[col], deltas[row]), -alpha)]]

\* A faulty swap: td[left] = td[right], the element at left being lost.
Swap_Overwrite(data, left, right) == [data EXCEPT ![left] = data[right]]

\* td[left], td[right] = td[right], td[left]
Swap(data, left, right) ==
    [data EXCEPT ![left] = data[right], ![right] = data[left]]

RECURSIVE SwapResults(_, _)
SwapResults(S, k) ==
    IF k = 0 THEN S
    ELSE SwapResults({Swap(d, left, right) :
                         d \in S, left \in 1..Len(CHOOSE x \in S : TRUE),
                         right \in 1..Len(CHOOSE x \in S : TRUE)}, k - 1)

\* TrainingData.Shuffle: rounds * len(td) swaps of two elements chosen at
\* random by index; the set of the orders it can leave.
Shuffle(data, rounds) ==
    SwapResults({data}, IF rounds > 0 THEN rounds * Len(data) ELSE 0)

\* (x - low) / (high - low), all entries scaled being finite and within
\* [low, high]: NaN when high = low or x is NaN.
Rescale(x, low, high) ==
    IF x = NaN \/ high = low THEN NaN ELSE RoundDiv((x - low) * Scale, high - low)

\* The inner loop of Scale's last loop, for one datum: the columns are
\* rescaled one after the other, a column given twice being rescaled twice.
RECURSIVE RescaleCols(_, _, _, _, _)
RescaleCols(inputs, cols, k, low, high) ==
    IF k > Len(cols) THEN inputs
    ELSE RescaleCols([inputs EXCEPT ![cols[k] + 1] = Rescale(@, low, high)],
                     cols, k + 1, low, high)

\* Scale after its validation loop: a run-time panic when cols or td is empty
\* (cols[0], td[0]) or a datum has no entry at a column, before any entry is
\* written; otherwise every given column of every datum is rescaled by the
\* lowest and highest value of those columns.
ScaleValidated(data, cols) ==
    IF \/ cols = <<>>
       \/ data = <<>>
       \/ \E idx \in 1..Len(data), k \in 1..Len(cols) :
             cols[k] >= Len(data[idx].Inputs)
    THEN [data |-> data, err |-> "panic"]
    ELSE LET values == {data[idx].Inputs[cols[k] + 1] :
                           idx \in 1..Len(data), k \in 1..Len(cols)}
             low == CHOOSE v \in values : \A w \in values : v <= w
             high == CHOOSE v \in values : \A w \in values : v >= w
         IN  [data |-> [idx \in 1..Len(data) |->
                          [data[idx] EXCEPT
                              !.Inputs = RescaleCols(@, cols, 1, low, high)]],
              err |-> NoErr]

\* A faulty Scale: a column index equal to the input length passes the
\* validation.
TrainingData_Scale_OffByOne(data, cols) ==
    IF cols # <<>> /\ data = <<>> THEN [data |-> data, err |-> "panic"]
    ELSE IF \E k \in 1..Len(cols) :
               cols[k] > Len(data[1].Inputs) \/ cols[k] < 0
    THEN [data |-> data, err |-> "scale"]
    ELSE ScaleValidated(data, cols)

\* TrainingData.Scale: every column index (counted from 0) is compared with
\* len(td[0].Inputs) before anything else is done.
TrainingData_Scale(data, cols) ==
    IF cols # <<>> /\ data = <<>> THEN [data |-> data, err |-> "panic"]
    ELSE IF \E k \in 1..Len(cols) :
               cols[k] >= Len(data[1].Inputs) \/ cols[k] < 0
    THEN [data |-> data, err |-> "scale"]
    ELSE ScaleValidated(data, cols)

\* math.Ceil of the quotient num / den, den > 0.
Ceil(num, den) == IF num % den = 0 THEN num \div den ELSE (num \div den) + 1

\* A faulty Split: the left count is rounded down.
TrainingData_Split_Floor(data, fraction) ==
    IF fraction > Scale \/ fraction < 0
    THEN [left |-> Nil, right |-> Nil, err |-> "split"]
    ELSE LET leftCount == (Len(data) * fraction) \div Scale
         IN  [left |-> SubSeq(data, 1, leftCount),
              right |-> SubSeq(data, leftCount + 1, Len(data)), err |-> NoErr]

\* TrainingData.Split: td[:leftCount] and td[leftCount:] for
\* leftCount = int(math.Ceil(float64(len(td)) * fraction)).
TrainingData_Split(data, fraction) ==
    IF fraction > Scale \/ fraction < 0
    THEN [left |-> Nil, right |-> Nil, err |-> "split"]
    ELSE LET leftCount == Ceil(Len(data) * fraction, Scale)
         IN  [left |-> SubSeq(data, 1, leftCount),
              right |-> SubSeq(data, leftCount + 1, Len(data)), err |-> NoErr]

\* The default learning rate 0.1.
DefaultAlpha == Scale \div 10

\* A faulty default: an unset learning rate is left at 0.
DefaultedAlpha_Unset(alpha) == alpha

\* Train's first statement: if t.Alpha == 0.0 { t.Alpha = 0.1 }.
DefaultedAlpha(alpha) == IF alpha = 0 THEN DefaultAlpha ELSE alpha

\* Trainer.RequestTermination.
RequestTermination(tr) == [tr EXCEPT !.requestTerminate = TRUE]

\* A faulty criterion: termination is requested when iter reaches maxIter.
SimpleStoppingCriteria_AtMax(maxIter, minErr, tr, sqErr, iter) ==
    LET t1 == IF iter >= maxIter THEN RequestTermination(tr) ELSE tr
    IN  IF Combine(sqErr) < minErr THEN RequestTermination(t1) ELSE t1

\* The callback AddSimpleStoppingCriteria registers.
SimpleStoppingCriteria(maxIter, minErr, tr, sqErr, iter) ==
    LET t1 == IF iter > maxIter THEN RequestTermination(tr) ELSE tr
    IN  IF Combine(sqErr) < minErr THEN RequestTermination(t1) ELSE t1

\* An IterationCallback invoked as eoi(t, mse, iteration, err): the caller's
\* callbacks either do nothing or request termination.
RunIterationCallback(h, tr, sqErr, iter, e) ==
    CASE h.kind = "simple" ->
            SimpleStoppingCriteria(h.maxIter, h.minErr, tr, sqErr, iter)
      [] h.kind = "terminate" -> RequestTermination(tr)
      [] OTHER -> tr

\* The learning rate a caller's training callback sets.
CallbackAlpha == Scale \div 2

\* A faulty training callback: the termination flag is cleared whenever a
\* training callback has run.
RunTrainingCallback_Resets(h, tr) ==
    [(CASE h.kind = "terminate" -> [tr EXCEPT !.requestTerminate = TRUE]
        [] h.kind = "alpha" -> [tr EXCEPT !.Alpha = Scale \div 2]
        [] OTHER -> tr) EXCEPT !.requestTerminate = FALSE]

\* A TrainingCallback invoked as st(t) or et(t): the caller's callbacks do
\* nothing, request termination, or set the learning rate.
RunTrainingCallback(h, tr) ==
    CASE h.kind = "terminate" -> RequestTermination(tr)
      [] h.kind = "alpha" -> [tr EXCEPT !.Alpha = CallbackAlpha]
      [] OTHER -> tr

\* A callback as the model registers it.
Handler(id, kind, maxIter, minErr) ==
    [id |-> id, kind |-> kind, maxIter |-> maxIter, minErr |-> minErr]

\* The zero-valued Trainer{}.
ZeroTrainer ==
    [endOfIterationHandlers |-> <<>>, startTrainingHandlers |-> <<>>,
     endTrainingHandlers |-> <<>>, requestTerminate |-> FALSE,
     Alpha |-> 0, BatchUpdate |-> FALSE, ShuffleRounds |-> 0]

\* The weight matrices of a network, layer by layer.
WeightsOf(n) == [i \in 1..Len(n.Layers) |-> n.Layers[i].Weights]

\* ------------------------------------------------------------------ state

VARIABLES
    net,          \* the Network the caller trains
    td,           \* the caller's TrainingData
    t,            \* the Trainer
    pc,           \* where the caller's current call stands
    call,         \* the call in progress: "Train", "OneIteration" or "none"
    cbIdx,        \* Train: index into the handler list being run
    iteration,    \* Train: iteration
    mse,          \* Train: mse
    err,          \* Train: err
    deltas,       \* OneIteration: deltas
    updates,      \* OneIteration: updates
    total,        \* OneIteration: total
    datumIdx,     \* OneIteration: index of the datum of the range loop
    layerIdx,     \* OneIteration: i of the update loop
    outputs,      \* OneIteration: outputs
    result,       \* what the finished call returned
    log,          \* history: the callbacks invoked and the passes returned
    passWeights,  \* history: the weights when the current pass began
    datumWeights, \* history: the weights when the current datum was forwarded
    exUpdates,    \* history: per datum of the pass, the update of every layer
    processed,    \* history: the datum indices forwarded in the current pass
    alpha0,       \* history: t.Alpha when Train was called
    args,         \* history: the arguments of the caller's last call (of
                  \* Evaluate: the weights of the network it was given, of
                  \* Train: the termination flag of its Trainer)
    ncalls,       \* history: the calls the caller has made and seen return
                  \* before another call (counted by the specifications
                  \* of sequences of calls)
    lastProcess   \* history: the weights at, the input vector of and the
                  \* return of the caller's last call of Process; whether
                  \* the call before it had the same weights and input
                  \* (repeat), and whether the first layer held another
                  \* input vector when it was made (stale)

vars ==
    <<net, td, t, pc, call, cbIdx, iteration, mse, err, deltas, updates, total,
      datumIdx, layerIdx, outputs, result, log, passWeights, datumWeights,
      exUpdates, processed, alpha0, args, ncalls, lastProcess>>

callHistory == <<args, lastProcess, ncalls>>

trainLocals == <<cbIdx, iteration, mse, err, log, alpha0, callHistory>>

iterLocals == <<deltas, updates, total, datumIdx, layerIdx, outputs>>

iterHistory == <<passWeights, datumWeights, exUpdates, processed>>

\* A datum of the training data.
Datum(inputs, expected) == [Inputs |-> inputs, Expected |-> expected]

\* An entry of the history of callbacks and passes.
Entry(ev, id, k, sqErr, e, req) ==
    [ev |-> ev, id |-> id, k |-> k, mse |-> sqErr, err |-> e, req |-> req]

\* The state right after construction, before any call.
Constructed(n, data, tr) ==
    /\ net = n
    /\ td = data
    /\ t = tr
    /\ pc = "idle"
    /\ call = "none"
    /\ cbIdx = 0
    /\ iteration = 0
    /\ mse = Nil
    /\ err = NoErr
    /\ deltas = <<>>
    /\ updates = <<>>
    /\ total = Nil
    /\ datumIdx = 0
    /\ layerIdx = 0
    /\ outputs = Nil
    /\ result = [val |-> Nil, err |-> NoErr]
    /\ log = <<>>
    /\ passWeights = <<>>
    /\ datumWeights = <<>>
    /\ exUpdates = <<>>
    /\ processed = <<>>
    /\ alpha0 = 0
    /\ args = Nil
    /\ ncalls = 0
    /\ lastProcess = [weights |-> <<>>, inputs |-> Nil, val |-> Nil, err |-> "none",
                      repeat |-> FALSE, stale |-> FALSE]

\* ------------------------------------------------- registering the callbacks

NumHandlers ==
    Len(t.endOfIterationHandlers) + Len(t.startTrainingHandlers)
    + Len(t.endTrainingHandlers)

\* A faulty append: the new handler is put in front of the list.
AppendHandler_Prepend(handlers, handler) == <<handler>> \o handlers

\* t.xHandlers = append(t.xHandlers, handler)
AppendHandler(handlers, handler) == Append(handlers, handler)

Configure(tr) ==
    /\ pc = "idle"
    /\ NumHandlers < MaxHandlers
    /\ t' = tr
    /\ UNCHANGED <<net, td, pc, call, result>>
    /\ UNCHANGED <<trainLocals, iterLocals, iterHistory>>

\* Trainer.AddIterationEndHandler
AddIterationEndHandler(handler) ==
    Configure([t EXCEPT !.endOfIterationHandlers = AppendHandler(@, handler)])

\* Trainer.AddTrainingBeginHandler
AddTrainingBeginHandler(handler) ==
    Configure([t EXCEPT !.startTrainingHandlers = AppendHandler(@, handler)])

\* Trainer.AddTrainingEndHandler
AddTrainingEndHandler(handler) ==
    Configure([t EXCEPT !.endTrainingHandlers = AppendHandler(@, handler)])

\* Trainer.AddSimpleStoppingCriteria
AddSimpleStoppingCriteria(maxIter, minErr) ==
    AddIterationEndHandler(
        Handler(Len(t.endOfIterationHandlers) + 1, "simple", maxIter, minErr))

\* ----------------------------------------------------------- OneIteration

\* OneIteration's return: to Train's loop (mse, err := ...), or to the caller.
Return(val, e) ==
    IF call = "Train"
    THEN /\ mse' = val
         /\ err' = e
         /\ pc' = "iterHandlers"
         /\ cbIdx' = 1
         /\ log' = Append(log, Entry("pass", 0, iteration, val, e, FALSE))
         /\ UNCHANGED result
    ELSE /\ result' = [val |-> val, err |-> e]
         /\ pc' = "done"
         /\ UNCHANGED <<mse, err, cbIdx, log>>

\* OneIteration up to its range loop: the zero deltas and updates of every
\* layer, the shuffle when ShuffleRounds > 0, and the zero total.
OneIterationBegin ==
    /\ deltas' = [i \in 1..Len(net.Layers) |->
                     [j \in 1..OutputSize(net.Layers[i].Weights) |-> 0]]
    /\ updates' = [i \in 1..Len(net.Layers) |->
                      MakeCore(InputSize(net.Layers[i].Weights),
                               OutputSize(net.Layers[i].Weights))]
    /\ IF t.ShuffleRounds > 0
       THEN td' \in Shuffle(td, t.ShuffleRounds)
       ELSE td' = td
    /\ total' = [j \in 1..Network_OutputSize(net) |-> 0]
    /\ datumIdx' = 1
    /\ pc' = "datum"
    /\ passWeights' = WeightsOf(net)
    /\ exUpdates' = <<>>
    /\ processed' = <<>>
    /\ UNCHANGED <<net, t, layerIdx, outputs, datumWeights>>

\* A direct call of Trainer.OneIteration.
CallOneIteration ==
    /\ pc = "idle"
    /\ call' = "OneIteration"
    /\ OneIterationBegin
    /\ UNCHANGED <<trainLocals, result>>

\* The loop body up to total.Accumulate: the forward pass of the datum, the
\* check of the expected length, and the squared error.
Forward ==
    /\ pc = "datum"
    /\ datumIdx <= Len(td)
    /\ LET datum == td[datumIdx]
           r == Network_Process(net, datum.Inputs)
       IN  /\ net' = r.net
           /\ processed' = Append(processed, datumIdx)
           /\ IF r.err # NoErr
              THEN /\ Return(Nil, r.err)
                   /\ UNCHANGED <<outputs, total, datumWeights, exUpdates>>
              ELSE IF Len(datum.Expected) # Len(r.val)
              THEN /\ Return(Nil, "mismatch")
                   /\ UNCHANGED <<outputs, total, datumWeights, exUpdates>>
              ELSE /\ outputs' = r.val
                   /\ total' = Accumulate(total, CalcError(datum.Expected, r.val).val)
                   /\ datumWeights' = WeightsOf(net)
                   /\ exUpdates' = Append(exUpdates, <<>>)
                   /\ pc' = "deltas"
                   /\ UNCHANGED <<mse, err, cbIdx, log, result>>
    /\ UNCHANGED <<td, t, call, iteration, alpha0, callHistory, deltas, updates, datumIdx,
                   layerIdx, passWeights>>

\* The deltas of the output layer.
OutputDeltas(old, outs, expected) ==
    [i \in 1..Len(old) |->
        IF i <= Len(expected)
        THEN Mul(Mul(outs[i] - expected[i], outs[i]), Scale - outs[i])
        ELSE old[i]]

RECURSIVE BackDeltas(_, _, _)
BackDeltas(d, n, i) ==
    IF i < 1 THEN d
    ELSE BackDeltas([d EXCEPT ![i] = calculateDeltas(d[i + 1], n.Layers[i + 1])],
                    n, i - 1)

\* The two delta loops: the output layer's deltas, then every earlier layer's
\* from the layer after it, last to first.
Deltas ==
    /\ pc = "deltas"
    /\ LET last == Len(net.Layers)
           d1 == [deltas EXCEPT
                     ![last] = OutputDeltas(@, outputs, td[datumIdx].Expected)]
       IN  deltas' = BackDeltas(d1, net, last - 1)
    /\ layerIdx' = 1
    /\ pc' = "update"
    /\ UNCHANGED <<net, td, t, call, result, updates, total, datumIdx, outputs>>
    /\ UNCHANGED <<trainLocals, iterHistory>>

\* A faulty online update: the update is computed and never applied.
ApplyOnline_Dropped(n, i, update) == n

\* A faulty accumulation: the layer's running update is overwritten.
AccumulateBatch_Overwrite(ups, i, update) ==
    [val |-> [ups EXCEPT ![i] = update], err |-> NoErr]

\* Online mode: net.Layers[i].UpdateWeights(update), its error dropped.
ApplyOnline(n, i, update) ==
    [n EXCEPT !.Layers[i] = Layer_UpdateWeights(@, update).layer]

\* Batch mode: update, err = updates[i].Add(update); updates[i] = update.
AccumulateBatch(ups, i, update) ==
    LET r == Core_Add(ups[i], update)
    IN  [val |-> [ups EXCEPT ![i] = r.val], err |-> r.err]

\* A faulty batch mode: the update is applied to the layer as well as
\* accumulated.
BatchLayers_Applied(n, i, update) == ApplyOnline(n, i, update)

\* Batch mode: the else branch of the update loop assigns to updates[i] alone,
\* the network is as it was.
BatchLayers(n, i, update) == n

\* One round of the update loop: layer i's update, applied or accumulated.
Update ==
    /\ pc = "update"
    /\ LET i == layerIdx
           update == calculateUpdate(net.Layers[i], deltas[i], t.Alpha)
           acc == AccumulateBatch(updates, i, update)
           more == /\ IF i < Len(net.Layers)
                      THEN /\ layerIdx' = i + 1
                           /\ pc' = "update"
                           /\ datumIdx' = datumIdx
                      ELSE /\ layerIdx' = i
                           /\ pc' = "datum"
                           /\ datumIdx' = datumIdx + 1
                   /\ UNCHANGED <<mse, err, cbIdx, log, result>>
       IN  /\ exUpdates' = [exUpdates EXCEPT ![Len(exUpdates)] = Append(@, update)]
           /\ IF ~t.BatchUpdate
              THEN /\ net' = ApplyOnline(net, i, update)
                   /\ updates' = updates
                   /\ more
              ELSE /\ net' = BatchLayers(net, i, update)
                   /\ updates' = acc.val
                   /\ IF acc.err # NoErr
                      THEN /\ Return(Nil, acc.err)
                           /\ UNCHANGED <<layerIdx, datumIdx>>
                      ELSE more
    /\ UNCHANGED <<td, t, call, iteration, alpha0, callHistory, deltas, total, outputs,
                   passWeights, datumWeights, processed>>

RECURSIVE ApplyBatch(_, _, _)
ApplyBatch(n, ups, idx) ==
    IF idx > Len(n.Layers) THEN n
    ELSE ApplyBatch([n EXCEPT !.Layers[idx] = Layer_UpdateWeights(@, ups[idx]).layer],
                    ups, idx + 1)

\* After the range loop: in batch mode every layer's accumulated update is
\* applied; the total is averaged and returned.
Finish ==
    /\ pc = "datum"
    /\ datumIdx > Len(td)
    /\ net' = IF t.BatchUpdate THEN ApplyBatch(net, updates, 1) ELSE net
    /\ total' = Average(total, Len(td))
    /\ Return(total', NoErr)
    /\ UNCHANGED <<td, t, call, iteration, alpha0, callHistory, deltas, updates, datumIdx,
                   layerIdx, outputs>>
    /\ UNCHANGED iterHistory

\* ------------------------------------------------------------------ Train

\* The handler a range loop over a handler list visits in its round idx.
RangeHandler(handlers, idx) == handlers[idx]

\* Train up to its first handler loop: the default learning rate.
CallTrain ==
    /\ pc = "idle"
    /\ call' = "Train"
    /\ alpha0' = t.Alpha
    /\ t' = [t EXCEPT !.Alpha = DefaultedAlpha(@)]
    /\ pc' = "startHandlers"
    /\ cbIdx' = 1
    /\ args' = [requestTerminate |-> t.requestTerminate]
    /\ UNCHANGED <<net, td, result, iteration, mse, err, log, lastProcess, ncalls>>
    /\ UNCHANGED <<iterLocals, iterHistory>>

\* One round of the loop over t.startTrainingHandlers: st(t).
StartHandler ==
    /\ pc = "startHandlers"
    /\ cbIdx <= Len(t.startTrainingHandlers)
    /\ LET st == RangeHandler(t.startTrainingHandlers, cbIdx)
       IN  /\ t' = RunTrainingCallback(st, t)
           /\ log' = Append(log, Entry("start", st.id, 0, Nil, NoErr, FALSE))
    /\ cbIdx' = cbIdx + 1
    /\ UNCHANGED <<net, td, pc, call, result, iteration, mse, err, alpha0, callHistory>>
    /\ UNCHANGED <<iterLocals, iterHistory>>

\* A faulty loop head: the termination flag is tested before the first
\* iteration, as in a loop `for !t.requestTerminate`.
StartHandlersDone_TestFirst ==
    /\ pc = "startHandlers"
    /\ cbIdx > Len(t.startTrainingHandlers)
    /\ iteration' = 0
    /\ IF t.requestTerminate
       THEN pc' = "endHandlers" /\ cbIdx' = 1
       ELSE pc' = "loop" /\ cbIdx' = cbIdx
    /\ UNCHANGED <<net, td, t, call, result, mse, err, log, alpha0, callHistory>>
    /\ UNCHANGED <<iterLocals, iterHistory>>

\* iteration := 0, after the training-start handlers.
StartHandlersDone ==
    /\ pc = "startHandlers"
    /\ cbIdx > Len(t.startTrainingHandlers)
    /\ iteration' = 0
    /\ pc' = "loop"
    /\ UNCHANGED <<net, td, t, call, result, cbIdx, mse, err, log, alpha0, callHistory>>
    /\ UNCHANGED <<iterLocals, iterHistory>>

\* The head of the for loop: iteration++ and the call of t.OneIteration.
LoopBegin ==
    /\ pc = "loop"
    /\ iteration < MaxIterations
    /\ iteration' = iteration + 1
    /\ OneIterationBegin
    /\ UNCHANGED <<call, result, cbIdx, mse, err, log, alpha0, callHistory>>

\* One round of the loop over t.endOfIterationHandlers:
\* eoi(t, mse, iteration, err).
IterHandler ==
    /\ pc = "iterHandlers"
    /\ cbIdx <= Len(t.endOfIterationHandlers)
    /\ LET eoi == RangeHandler(t.endOfIterationHandlers, cbIdx)
           req == RunIterationCallback(eoi, [t EXCEPT !.requestTerminate = FALSE],
                                       mse, iteration, err).requestTerminate
       IN  /\ t' = RunIterationCallback(eoi, t, mse, iteration, err)
           /\ log' = Append(log, Entry("iter", eoi.id, iteration, mse, err, req))
    /\ cbIdx' = cbIdx + 1
    /\ UNCHANGED <<net, td, pc, call, result, iteration, mse, err, alpha0, callHistory>>
    /\ UNCHANGED <<iterLocals, iterHistory>>

\* A faulty loop end: the loop is left after every iteration.
LoopExit_Once(e, terminate) == IF e # NoErr THEN "return" ELSE "break"

\* A faulty loop end: the termination flag is looked at before the error.
LoopExit_TerminateFirst(e, terminate) ==
    IF terminate THEN "break" ELSE IF e # NoErr THEN "return" ELSE "continue"

\* A faulty loop end: a failed iteration leaves the loop by break, as a
\* termination request does.
LoopExit_BreakOnError(e, terminate) ==
    IF e # NoErr \/ terminate THEN "break" ELSE "continue"

\* The end of the loop body: return err when the iteration failed, break when
\* termination was requested, loop otherwise.
LoopExit(e, terminate) ==
    IF e # NoErr THEN "return" ELSE IF terminate THEN "break" ELSE "continue"

LoopCheck ==
    /\ pc = "iterHandlers"
    /\ cbIdx > Len(t.endOfIterationHandlers)
    /\ LET exit == LoopExit(err, t.requestTerminate)
       IN  IF exit = "return"
           THEN /\ result' = [val |-> Nil, err |-> err]
                /\ pc' = "done"
                /\ cbIdx' = cbIdx
           ELSE IF exit = "break"
           THEN /\ pc' = "endHandlers"
                /\ cbIdx' = 1
                /\ result' = result
           ELSE /\ pc' = "loop"
                /\ cbIdx' = cbIdx
                /\ result' = result
    /\ UNCHANGED <<net, td, t, call, iteration, mse, err, log, alpha0, callHistory>>
    /\ UNCHANGED <<iterLocals, iterHistory>>

\* One round of the loop over t.endTrainingHandlers: et(t).
EndHandler ==
    /\ pc = "endHandlers"
    /\ cbIdx <= Len(t.endTrainingHandlers)
    /\ LET et == RangeHandler(t.endTrainingHandlers, cbIdx)
       IN  /\ t' = RunTrainingCallback(et, t)
           /\ log' = Append(log, Entry("end", et.id, 0, Nil, NoErr, FALSE))
    /\ cbIdx' = cbIdx + 1
    /\ UNCHANGED <<net, td, pc, call, result, iteration, mse, err, alpha0, callHistory>>
    /\ UNCHANGED <<iterLocals, iterHistory>>

\* Train's final return, with a nil error.
TrainReturn ==
    /\ pc = "endHandlers"
    /\ cbIdx > Len(t.endTrainingHandlers)
    /\ result' = [val |-> Nil, err |-> NoErr]
    /\ pc' = "done"
    /\ UNCHANGED <<net, td, t, call>>
    /\ UNCHANGED <<trainLocals, iterLocals, iterHistory>>

\* ----------------------------------------------------- specification: Train

\* Training data for a network of one input and one output: one datum the
\* untrained network already matches, two it does not, and a pass whose
\* second datum has an input vector of the wrong length.
TrainDataSets ==
    { <<Datum(<<0>>, <<Scale \div 2>>)>>,
      <<Datum(<<Scale>>, <<Scale>>), Datum(<<0>>, <<0>>)>>,
      <<Datum(<<Scale>>, <<Scale>>), Datum(<<Scale, 0>>, <<0>>)>> }

\* The learning rates a caller configures: unset, and 0.3.
AlphaValues == {0, (3 * Scale) \div 10}

\* The (maxIter, minErr) pairs given to AddSimpleStoppingCriteria.
SimpleCriteria == {<<0, 0>>, <<1, Scale \div 10>>}

InitTrain ==
    \E data \in TrainDataSets, a \in AlphaValues, b \in BOOLEAN :
        Constructed(MakeNetwork(<<1, 1>>), data,
                    [ZeroTrainer EXCEPT !.Alpha = a, !.BatchUpdate = b])

Register ==
    \/ \E kind \in {"noop", "terminate"} :
          AddIterationEndHandler(
              Handler(Len(t.endOfIterationHandlers) + 1, kind, 0, 0))
    \/ \E c \in SimpleCriteria : AddSimpleStoppingCriteria(c[1], c[2])
    \/ \E kind \in {"noop", "terminate", "alpha"} :
          AddTrainingBeginHandler(
              Handler(Len(t.startTrainingHandlers) + 1, kind, 0, 0))
    \/ AddTrainingEndHandler(Handler(Len(t.endTrainingHandlers) + 1, "noop", 0, 0))

OneIterationSteps == Forward \/ Deltas \/ Update \/ Finish

NextTrain ==
    \/ Register
    \/ CallTrain
    \/ StartHandler
    \/ StartHandlersDone
    \/ LoopBegin
    \/ OneIterationSteps
    \/ IterHandler
    \/ LoopCheck
    \/ EndHandler
    \/ TrainReturn

Spec == InitTrain /\ [][NextTrain]_vars

\* ------------------------------------------------------- claims about Train

NumStart == Len(t.startTrainingHandlers)

NumIter == Len(t.endOfIterationHandlers)

NumEnd == Len(t.endTrainingHandlers)

\* Train has returned nil: its loop ended by a termination request.
TrainEndedByTermination == call = "Train" /\ pc = "done" /\ result.err = NoErr

\* Train has returned the error of a failed iteration.
TrainEndedByError == call = "Train" /\ pc = "done" /\ result.err # NoErr

\* The place in the history where pass k's entries begin (its "pass" entry).
PassAt(k) == NumStart + (k - 1) * (1 + NumIter) + 1

\* C1: when Train has ended by a termination request, the history is: every
\* training-start callback once, in registration order; then for k = 1, 2, ...
\* up to the last iteration, pass k followed by every iteration-end callback
\* once, in registration order, each given k and the squared error and error
\* pass k returned; then every training-end callback once, in registration
\* order.
C1_CallbackOrder ==
    TrainEndedByTermination =>
        /\ Len(log) = NumStart + iteration * (1 + NumIter) + NumEnd
        /\ \A i \in 1..NumStart :
              /\ log[i].ev = "start"
              /\ log[i].id = i
              /\ t.startTrainingHandlers[i].id = i
        /\ \A k \in 1..iteration :
              /\ log[PassAt(k)].ev = "pass"
              /\ log[PassAt(k)].k = k
              /\ \A j \in 1..NumIter :
                    /\ log[PassAt(k) + j].ev = "iter"
                    /\ log[PassAt(k) + j].id = j
                    /\ t.endOfIterationHandlers[j].id = j
                    /\ log[PassAt(k) + j].k = k
                    /\ log[PassAt(k) + j].mse = log[PassAt(k)].mse
                    /\ log[PassAt(k) + j].err = log[PassAt(k)].err
        /\ \A i \in 1..NumEnd :
              /\ log[PassAt(iteration + 1) - 1 + i].ev = "end"
              /\ log[PassAt(iteration + 1) - 1 + i].id = i
              /\ t.endTrainingHandlers[i].id = i

\* Train ended by a termination request after two iterations with two
\* iteration-end callbacks and a training-end callback registered.
C1_Witness ==
    TrainEndedByTermination /\ iteration = 2 /\ NumIter = 2 /\ NumEnd = 1

\* C2: Train has left its loop only if the last iteration returned an error or
\* the termination flag is set; and at the end of a loop body with no error and
\* no termination request the loop goes round, the next step being a new
\* iteration with the counter one higher.
C2_ReturnsOnlyOnErrorOrTermination ==
    /\ [](call = "Train" /\ pc \in {"endHandlers", "done"} =>
             \/ t.requestTerminate
             \/ /\ result.err # NoErr
                /\ err = result.err)
    /\ [][(/\ pc = "iterHandlers"
           /\ cbIdx > NumIter
           /\ err = NoErr
           /\ ~t.requestTerminate) => pc' = "loop"]_vars
    /\ [][pc = "loop" => pc' = "datum" /\ iteration' = iteration + 1]_vars

\* Train is about to start yet another iteration: as many iterations as the
\* model allows have succeeded and nothing has requested termination.
C2_Witness ==
    /\ call = "Train"
    /\ pc = "loop"
    /\ iteration = MaxIterations
    /\ ~t.requestTerminate

\* The iteration-end callbacks registered by AddSimpleStoppingCriteria.
SimpleHandlers ==
    {j \in 1..NumIter : t.endOfIterationHandlers[j].kind = "simple"}

FailedPasses == {i \in 1..Len(log) : log[i].ev = "pass" /\ log[i].err # NoErr}

\* C4: once an iteration has returned an error, all that follows it is every
\* iteration-end callback, once and in order, given that iteration's number,
\* a nil squared error and that error; then Train returns that error, with no
\* further iteration and whether or not termination was requested.
C4_ErrorEndsTrain ==
    call = "Train" =>
        \A i \in FailedPasses :
            /\ pc \in {"iterHandlers", "done"}
            /\ log[i].k = iteration
            /\ Len(log) <= i + NumIter
            /\ \A j \in (i + 1)..Len(log) :
                  /\ log[j].ev = "iter"
                  /\ log[j].id = j - i
                  /\ log[j].k = log[i].k
                  /\ log[j].mse = Nil
                  /\ log[j].err = log[i].err
            /\ pc = "done" =>
                  /\ Len(log) = i + NumIter
                  /\ result.err = log[i].err

\* Train returned the error of a failed iteration although one of its two
\* iteration-end callbacks had requested termination.
C4_Witness ==
    TrainEndedByError /\ t.requestTerminate /\ NumIter = 2 /\ FailedPasses # {}

\* C5: Train leaves its loop only after an iteration, and after every
\* iteration-end callback of each pass has run; a pass that returned no error
\* forwarded every datum, whatever the termination flag; and once the flag is
\* set no further iteration is started, except the first when the flag was set
\* before it.
C5_TerminationCheckedOncePerPass ==
    /\ [](call = "Train" =>
             /\ pc \in {"endHandlers", "done"} =>
                   /\ iteration >= 1
                   /\ \A k \in 1..iteration :
                         Cardinality({i \in 1..Len(log) :
                             log[i].ev = "iter" /\ log[i].k = k}) = NumIter
             /\ (pc = "iterHandlers" /\ err = NoErr) =>
                   processed = [i \in 1..Len(td) |-> i])
    /\ [][(call = "Train" /\ t.requestTerminate) =>
             \/ iteration' = iteration
             \/ iteration = 0 /\ iteration' = 1]_vars

\* A training-start callback requested termination; the first pass still
\* forwarded both of its examples and both iteration-end callbacks ran.
C5_Witness ==
    /\ TrainEndedByTermination
    /\ NumStart = 1
    /\ t.startTrainingHandlers[1].kind = "terminate"
    /\ NumIter = 2
    /\ iteration = 1
    /\ processed = <<1, 2>>

\* A training-start callback that sets the learning rate has run.
AlphaCallbackRan ==
    \E i \in 1..Len(log) :
        /\ log[i].ev = "start"
        /\ log[i].id \in 1..NumStart
        /\ t.startTrainingHandlers[log[i].id].kind = "alpha"

\* C8: throughout a call of Train, from before the first training-start
\* callback on, and as long as no callback has set the learning rate, Alpha is
\* 0.1 when it was 0 at the call, and otherwise what it was at the call.
C8_DefaultAlpha ==
    (call = "Train" /\ ~AlphaCallbackRan) =>
        t.Alpha = (IF alpha0 = 0 THEN Scale \div 10 ELSE alpha0)

\* The second iteration of a Train called with Alpha unset computes an update
\* with the learning rate 0.1.
C8_Witness ==
    /\ call = "Train"
    /\ alpha0 = 0
    /\ ~AlphaCallbackRan
    /\ pc = "update"
    /\ iteration = 2
    /\ t.Alpha = Scale \div 10

\* The entries of the history made by the callbacks of one kind.
LogOf(ev) == {i \in 1..Len(log) : log[i].ev = ev}

\* C26: a training-end callback has been invoked in a call of Train only
\* when termination is requested and the last iteration did not fail; when
\* Train has returned the error of a failed iteration, no training-end
\* callback was invoked in the call and every training-start callback was.
C26_EndCallbacksOnlyOnTermination ==
    call = "Train" =>
        /\ LogOf("end") # {} =>
              /\ t.requestTerminate
              /\ err = NoErr
              /\ pc \in {"endHandlers", "done"}
        /\ TrainEndedByError =>
              /\ LogOf("end") = {}
              /\ Cardinality(LogOf("start")) = NumStart

\* Train returned the error of a failed iteration on a Trainer with a
\* training-start and a training-end callback: the first was invoked, the
\* second was not.
C26_Witness ==
    /\ TrainEndedByError
    /\ NumStart = 1 /\ NumEnd = 1
    /\ Cardinality(LogOf("start")) = 1
    /\ LogOf("end") = {}

\* ---------------------------------------------- specification: OneIteration

\* A call of Network.Randomize between the caller's other calls.
Randomize(seed) ==
    /\ pc = "idle"
    /\ net' = Network_Randomize(net, seed)
    /\ call' = "Randomize"
    /\ UNCHANGED <<td, t, pc, result>>
    /\ UNCHANGED <<cbIdx, iteration, mse, err, log, alpha0, args, lastProcess>>
    /\ UNCHANGED <<iterLocals, iterHistory>>

\* The layer widths of the networks trained by direct calls of OneIteration.
IterSizes == {<<1, 1>>, <<1, 2, 1>>, <<1, 1, 2>>}

\* The datums of the caller's data: two that fit a network of one input and
\* one output, one with two inputs, one with two expected outputs.
DatumPool ==
    { Datum(<<Scale>>, <<Scale>>), Datum(<<0>>, <<0>>),
      Datum(<<Scale, 0>>, <<Scale>>), Datum(<<Scale>>, <<Scale, 0>>) }

RECURSIVE SeqsOfLen(_, _)
SeqsOfLen(S, n) ==
    IF n = 0 THEN {<<>>}
    ELSE {Append(q, x) : q \in SeqsOfLen(S, n - 1), x \in S}

\* The caller's data: 1 to MaxData datums.
DataSets == UNION {SeqsOfLen(DatumPool, n) : n \in 1..MaxData}

InitIter ==
    \E sizes \in IterSizes, data \in DataSets, a \in AlphaValues,
       b \in BOOLEAN, rounds \in 0..MaxShuffleRounds :
        Constructed(MakeNetwork(sizes), data,
                    [ZeroTrainer EXCEPT !.Alpha = a, !.BatchUpdate = b,
                                        !.ShuffleRounds = rounds])

NextIter ==
    \/ \E seed \in 1..MaxSeed : Randomize(seed) /\ UNCHANGED ncalls
    \/ CallOneIteration
    \/ OneIterationSteps

SpecIter == InitIter /\ [][NextIter]_vars

\* ------------------------------------------------ claims about OneIteration

\* A pass of a directly called OneIteration is processing its examples.
InPass == call = "OneIteration" /\ pc \in {"datum", "deltas", "update"}

\* The sum of entry [row][col] of layer i's update over the examples
\* first..last of the pass that have computed layer i's update.
RECURSIVE UpdateSum(_, _, _, _)
UpdateSum(i, row, col, k) ==
    IF k = 0 THEN 0
    ELSE UpdateSum(i, row, col, k - 1)
         + (IF i <= Len(exUpdates[k]) THEN exUpdates[k][i][row][col] ELSE 0)

\* The weights the pass began with plus every update computed so far.
PassWeightsPlusUpdates ==
    [i \in 1..Len(passWeights) |->
        [row \in 1..Len(passWeights[i]) |->
            [col \in 1..Len(passWeights[i][row]) |->
                passWeights[i][row][col] + UpdateSum(i, row, col, Len(exUpdates))]]]

\* C6: in batch mode the weights of every layer stay those the pass began
\* with while its examples are processed; when the pass has returned without
\* an error they are those weights plus the elementwise sum of the layer's
\* updates of all examples.
C6_BatchUpdate ==
    (call = "OneIteration" /\ t.BatchUpdate) =>
        /\ InPass => WeightsOf(net) = passWeights
        /\ pc = "deltas" => datumWeights = passWeights
        /\ (pc = "done" /\ result.err = NoErr) =>
              /\ Len(exUpdates) = Len(td)
              /\ WeightsOf(net) = PassWeightsPlusUpdates

\* A batch pass over two examples has returned, the two layers' weights
\* changed, and the two examples' updates of the first layer differ.
C6_Witness ==
    /\ call = "OneIteration" /\ t.BatchUpdate
    /\ pc = "done" /\ result.err = NoErr
    /\ Len(td) = 2
    /\ Len(net.Layers) = 2
    /\ \A i \in 1..2 : net.Layers[i].Weights # passWeights[i]
    /\ exUpdates[1][1] # exUpdates[2][1]

\* The weights of layer i once the current example's updates of the layers
\* before layerIdx have been applied.
WeightsDuringUpdate(i) ==
    IF i < layerIdx
    THEN [row \in 1..Len(datumWeights[i]) |->
             [col \in 1..Len(datumWeights[i][row]) |->
                 datumWeights[i][row][col]
                 + exUpdates[Len(exUpdates)][i][row][col]]]
    ELSE datumWeights[i]

\* C7: in online mode, whenever the next example is about to be forwarded (or
\* the pass to end) the weights are those the pass began with plus the updates
\* of all examples processed so far, so each example is forwarded with them;
\* between an example's forward pass and the computation of its deltas no
\* weight changes; and when the update of layer i is about to be applied, all
\* deltas are those computed from the weights the example was forwarded with,
\* the layers before i alone having been updated.
C7_OnlineUpdate ==
    (call = "OneIteration" /\ ~t.BatchUpdate) =>
        /\ pc = "datum" => WeightsOf(net) = PassWeightsPlusUpdates
        /\ (pc = "done" /\ result.err = NoErr) =>
              WeightsOf(net) = PassWeightsPlusUpdates
        /\ pc = "deltas" => WeightsOf(net) = datumWeights
        /\ pc = "update" =>
              /\ WeightsOf(net) = [i \in 1..Len(net.Layers) |-> WeightsDuringUpdate(i)]
              /\ LET n0 == [net EXCEPT !.Layers = [i \in 1..Len(net.Layers) |->
                               [net.Layers[i] EXCEPT !.Weights = datumWeights[i]]]]
                     last == Len(net.Layers)
                     d1 == [deltas EXCEPT ![last] =
                               OutputDeltas(@, outputs, td[datumIdx].Expected)]
                 IN  deltas = BackDeltas(d1, n0, last - 1)

\* The second example of an online pass has been forwarded with weights that
\* the first example's update changed in both layers.
C7_Witness ==
    /\ call = "OneIteration" /\ ~t.BatchUpdate
    /\ pc = "deltas"
    /\ datumIdx = 2
    /\ Len(net.Layers) = 2
    /\ \A i \in 1..2 : datumWeights[i] # passWeights[i]

\* A datum the network cannot take: its input vector or its expected vector
\* has the wrong length.
BadDatum(d) ==
    \/ Len(d.Inputs) # Network_InputSize(net)
    \/ Len(d.Expected) # Network_OutputSize(net)

\* The index of the first such datum of the data, 0 when there is none.
FirstBad ==
    LET bad == {i \in 1..Len(td) : BadDatum(td[i])}
    IN  IF bad = {} THEN 0 ELSE CHOOSE i \in bad : \A j \in bad : i <= j

\* C9: OneIteration forwards the examples in order and none after the first
\* one the network cannot take; it returns an error and a nil vector when
\* there is such an example, having computed no update for it, and a vector
\* and no error when there is none.
C9_ErrorStopsPass ==
    (call = "OneIteration" /\ pc # "idle") =>
        /\ processed = [i \in 1..Len(processed) |-> i]
        /\ FirstBad # 0 => Len(processed) <= FirstBad
        /\ pc = "done" =>
              IF FirstBad = 0
              THEN /\ result.err = NoErr
                   /\ Len(result.val) = Network_OutputSize(net)
                   /\ Len(processed) = Len(td)
              ELSE /\ result.err # NoErr
                   /\ result.val = Nil
                   /\ Len(processed) = FirstBad
                   /\ Len(exUpdates) = FirstBad - 1

\* OneIteration returned an error at the first of two examples, one whose
\* expected vector has the wrong length, and never forwarded the second.
C9_Witness ==
    /\ call = "OneIteration" /\ pc = "done"
    /\ result.err = "mismatch"
    /\ Len(td) = 2
    /\ processed = <<1>>

\* The delta of unit j of layer i by backpropagation: the sum over the units
\* u of layer i + 1 of that unit's weight for input j times that unit's
\* delta, times the activation a of unit j and 1 - a.  W are the weights the
\* example was forwarded with.
HiddenDelta(i, j) ==
    LET W == datumWeights[i + 1]
        a == net.Layers[i + 1].Inputs[j]
        sum == SumSeq([u \in 1..Len(W) |-> Mul(W[u][j], deltas[i + 1][u])])
    IN  Mul(Mul(sum, a), Scale - a)

\* C20: once the deltas of an example are computed, every layer but the last
\* has one delta per unit, none for the bias input, and the delta of its unit
\* j is the sum over the units u of the next layer of W[u][j] times delta u,
\* times a_j times (1 - a_j), a_j being the next layer's stored input j.
C20_HiddenDeltas ==
    (call = "OneIteration" /\ pc = "update") =>
        \A i \in 1..(Len(net.Layers) - 1) :
            /\ Len(deltas[i]) = OutputSize(net.Layers[i].Weights)
            /\ Len(deltas[i]) = Len(net.Layers[i + 1].Inputs)
            /\ \A j \in 1..Len(deltas[i]) : deltas[i][j] = HiddenDelta(i, j)

\* The updates computed so far for the example last forwarded.
CurrentUpdates == exUpdates[Len(exUpdates)]

\* C21: the update computed for a layer and an example has the shape of the
\* layer's weight matrix, and its entry [row][col] is the layer's stored input
\* col, or 1.0 in the last column, times the layer's delta row times -alpha.
C21_UpdateMatrix ==
    (/\ call = "OneIteration"
     /\ exUpdates # <<>>
     /\ pc \in {"update", "datum"} \/ (pc = "done" /\ result.err = NoErr))
    => \A i \in 1..Len(CurrentUpdates) :
          LET update == CurrentUpdates[i]
              W == net.Layers[i].Weights
              biasedInput == Append(net.Layers[i].Inputs, Scale)
          IN  /\ Len(update) = Len(W)
              /\ \A row \in 1..Len(W) :
                    /\ Len(update[row]) = Len(W[row])
                    /\ \A col \in 1..Len(W[row]) :
                          update[row][col] =
                              Mul(Mul(biasedInput[col], deltas[i][row]), -t.Alpha)
                    /\ update[row][Len(W[row])] = Mul(deltas[i][row], -t.Alpha)

\* The updates of both layers of a network are computed for an example, the
\* first layer's with a non-zero entry in its bias column and another in its
\* input column.
C21_Witness ==
    /\ call = "OneIteration"
    /\ pc = "datum"
    /\ Len(net.Layers) = 2
    /\ Len(exUpdates) = 1
    /\ Len(CurrentUpdates) = 2
    /\ CurrentUpdates[1][1][2] # 0
    /\ CurrentUpdates[1][1][1] # 0

\* The network with the weights example k of the pass was forwarded with: in
\* batch mode those the pass began with, in online mode those plus the
\* updates of the examples before k.
NetAt(k) ==
    [net EXCEPT !.Layers = [i \in 1..Len(net.Layers) |->
        [net.Layers[i] EXCEPT !.Weights =
            [row \in 1..Len(passWeights[i]) |->
                [col \in 1..Len(passWeights[i][row]) |->
                    passWeights[i][row][col]
                    + (IF t.BatchUpdate THEN 0 ELSE UpdateSum(i, row, col, k - 1))]]]]]

\* The square of expected j minus actual j for example k, actual being the
\* output of the network the example was forwarded with.
ExampleError(k, j) ==
    LET actual == Network_Process(NetAt(k), td[k].Inputs).val
        diff == td[k].Expected[j] - actual[j]
    IN  Mul(diff, diff)

\* C22: a OneIteration that returned no error returned a vector with one
\* entry per network output, entry j being the sum over the N examples of the
\* square of expected j minus actual j, divided by N; actual is the output
\* for the weights the example was presented to, which in online mode hold
\* the updates of the earlier examples and not its own.
C22_AveragedError ==
    (call = "OneIteration" /\ pc = "done" /\ result.err = NoErr) =>
        /\ Len(result.val) = Network_OutputSize(net)
        /\ \A j \in 1..Len(result.val) :
              result.val[j] =
                  DivInt(SumSeq([k \in 1..Len(td) |-> ExampleError(k, j)]), Len(td))

\* An online pass over two examples returned a non-zero error; the second
\* example was forwarded with weights the first example's update had changed,
\* and its error differs from the error it has for the initial weights.
C22_Witness ==
    /\ call = "OneIteration" /\ pc = "done" /\ result.err = NoErr
    /\ ~t.BatchUpdate
    /\ Len(td) = 2
    /\ result.val[1] > 0
    /\ datumWeights # passWeights
    /\ ExampleError(2, 1) # CalcError(td[2].Expected,
            Network_Process(NetAt(1), td[2].Inputs).val).val[1]

\* C25: when a OneIteration in batch mode has returned an error, the weights
\* of every layer are those they were when it was called, whatever updates
\* were computed for the examples before the failing one.
C25_BatchErrorKeepsWeights ==
    (call = "OneIteration" /\ t.BatchUpdate /\ pc = "done" /\ result.err # NoErr)
    => WeightsOf(net) = passWeights

\* A batch pass returned an error at its second example, after it had
\* computed non-zero updates of both layers for the first.
C25_Witness ==
    /\ call = "OneIteration" /\ t.BatchUpdate
    /\ pc = "done" /\ result.err # NoErr
    /\ processed = <<1, 2>>
    /\ Len(exUpdates) = 1
    /\ Len(net.Layers) = 2
    /\ \A i \in 1..2 : exUpdates[1][i] # MakeCore(Len(passWeights[i][1]), Len(passWeights[i]))
    /\ WeightsOf(net) = passWeights

\* Every entry of every update computed in the pass is zero.
AllUpdatesZero ==
    \A k \in 1..Len(exUpdates) : \A i \in 1..Len(exUpdates[k]) :
        \A row \in 1..Len(exUpdates[k][i]) :
            \A col \in 1..Len(exUpdates[k][i][row]) : exUpdates[k][i][row][col] = 0

\* C28: no step of a directly called OneIteration changes the Trainer; and
\* while and after OneIteration runs on a Trainer whose Alpha is 0, Alpha is
\* still 0, every update computed is zero and the weights are those the
\* network had at the call, in online and in batch mode.
C28_OneIterationKeepsTrainer ==
    /\ [][call' = "OneIteration" => t' = t]_vars
    /\ []((call = "OneIteration" /\ t.Alpha = 0) =>
            (AllUpdatesZero /\ WeightsOf(net) = passWeights))

\* An online OneIteration on a Trainer with Alpha 0 returned without an error
\* after two examples, for a network of non-zero weights whose output deltas
\* were not zero.
C28_Witness ==
    /\ call = "OneIteration" /\ pc = "done" /\ result.err = NoErr
    /\ t.Alpha = 0
    /\ ~t.BatchUpdate
    /\ Len(exUpdates) = 2
    /\ deltas[Len(deltas)][1] # 0
    /\ passWeights[1] # MakeCore(Len(passWeights[1][1]), Len(passWeights[1]))
    /\ WeightsOf(net) = passWeights

\* --------------------------------------------------- specification: Process

\* A call of Network.Process by the caller, from its call to its return.
CallProcess(inputs) ==
    /\ pc = "idle"
    /\ LET r == Network_Process(net, inputs)
       IN  /\ net' = r.net
           /\ result' = [val |-> r.val, err |-> r.err]
    /\ call' = "Process"
    /\ args' = inputs
    /\ lastProcess' = [weights |-> WeightsOf(net), inputs |-> inputs,
                       val |-> Network_Process(net, inputs).val,
                       err |-> Network_Process(net, inputs).err,
                       repeat |-> /\ lastProcess.err # "none"
                                  /\ lastProcess.inputs = inputs
                                  /\ lastProcess.weights = WeightsOf(net),
                       stale |-> net.Layers[1].Inputs # inputs]
    /\ UNCHANGED <<td, t, pc, cbIdx, iteration, mse, err, log, alpha0>>
    /\ UNCHANGED <<iterLocals, iterHistory>>

\* The layer widths of the networks given to Process.
ProcessSizes == {<<1, 1>>, <<2, 1>>, <<1, 2>>, <<2, 2, 1>>}

\* The input vectors given to Process: every length from 0 to MaxInputLen.
ProcessInputs == UNION {SeqsOfLen({0, Scale}, n) : n \in 0..MaxInputLen}

InitProcess ==
    \E sizes \in ProcessSizes : Constructed(MakeNetwork(sizes), <<>>, ZeroTrainer)

NextProcess ==
    \/ \E seed \in 1..MaxSeed : Randomize(seed) /\ UNCHANGED ncalls
    \/ \E inputs \in ProcessInputs : CallProcess(inputs) /\ UNCHANGED ncalls

SpecProcess == InitProcess /\ [][NextProcess]_vars

\* C10: Process has returned without an error exactly when its input vector
\* has InputSize() entries; then the returned vector has OutputSize() entries
\* and the cached Outputs hold the same values; otherwise the returned vector
\* is nil and so are the cached Outputs, whatever an earlier call had cached.
C10_Process ==
    call = "Process" =>
        /\ result.err = NoErr <=> Len(args) = Network_InputSize(net)
        /\ result.err = NoErr =>
              /\ Len(result.val) = Network_OutputSize(net)
              /\ net.Outputs = result.val
        /\ result.err # NoErr =>
              /\ result.val = Nil
              /\ net.Outputs = Nil

\* Process failed on a vector one entry too long, after an earlier call had
\* succeeded and left the last layer's outputs behind.
C10_Witness ==
    /\ call = "Process"
    /\ result.err # NoErr
    /\ Len(args) = Network_InputSize(net) + 1
    /\ net.Layers[Len(net.Layers)].Outputs # Nil
    /\ net.Outputs = Nil

\* -------------------------------------------------- specification: Evaluate

RECURSIVE EvaluateFrom(_, _, _, _)
EvaluateFrom(n, data, idx, res) ==
    IF idx > Len(data)
    THEN [net |-> n, val |-> res, err |-> NoErr]
    ELSE LET datum == data[idx]
             r == Network_Process(n, datum.Inputs)
             se == CalcError(datum.Expected, r.val)
         IN  IF r.err # NoErr THEN [net |-> r.net, val |-> Nil, err |-> r.err]
             ELSE IF se.err # NoErr THEN [net |-> r.net, val |-> Nil, err |-> se.err]
             ELSE EvaluateFrom(r.net, data, idx + 1, Append(res, se.val))

\* A faulty Evaluate: only the last datum is evaluated.
Evaluate_LastOnly(n, data) ==
    EvaluateFrom(n, data, IF data = <<>> THEN 1 ELSE Len(data), <<>>)

\* Evaluate: the squared error of every datum, in the order of the data; nil
\* and the error of the first datum that fails.  `net` is the function's copy
\* of the caller's Network, which shares the caller's Layers.
Evaluate(n, data) == EvaluateFrom(n, data, 1, <<>>)

\* A call of Evaluate by the caller, from its call to its return: the layers
\* are the caller's, the Outputs field written is the copy's.
CallEvaluate ==
    /\ pc = "idle"
    /\ LET r == Evaluate(net, td)
       IN  /\ net' = [r.net EXCEPT !.Outputs = net.Outputs]
           /\ result' = [val |-> r.val, err |-> r.err]
    /\ call' = "Evaluate"
    /\ args' = WeightsOf(net)
    /\ UNCHANGED <<td, t, pc, cbIdx, iteration, mse, err, log, alpha0, lastProcess>>
    /\ UNCHANGED <<iterLocals, iterHistory>>

\* The layer widths of the networks evaluated.
EvaluateSizes == {<<1, 2>>, <<1, 2, 1>>}

\* The data evaluated: 0 to MaxData datums.
EvaluateData == UNION {SeqsOfLen(DatumPool, n) : n \in 0..MaxData}

\* The input vectors given to Process between the evaluations.
EvaluateInputs == {<<Scale>>, <<Scale, 0>>}

InitEvaluate ==
    \E sizes \in EvaluateSizes, data \in EvaluateData :
        Constructed(MakeNetwork(sizes), data, ZeroTrainer)

NextEvaluate ==
    \/ \E seed \in 1..MaxSeed : Randomize(seed) /\ UNCHANGED ncalls
    \/ \E inputs \in EvaluateInputs : CallProcess(inputs) /\ UNCHANGED ncalls
    \/ CallEvaluate /\ UNCHANGED ncalls

SpecEvaluate == InitEvaluate /\ [][NextEvaluate]_vars

\* --------------------------------------- claims about Process and Evaluate

\* C13: a call of Process with the input vector of the caller's last call of
\* Process, the weights being those of that call, returns what that call
\* returned, whatever Process, Evaluate or a failed call has left in the
\* layers' Inputs and Outputs and in the network's Outputs since.
C13_ProcessIdempotent ==
    [][(/\ lastProcess.err # "none"
        /\ lastProcess'.inputs = lastProcess.inputs
        /\ lastProcess'.weights = lastProcess.weights)
       => (/\ lastProcess'.val = lastProcess.val
           /\ lastProcess'.err = lastProcess.err)]_vars

\* Process returned a second time for an input vector and non-zero weights it
\* had succeeded on, after another call had left another input vector in the
\* first layer.
C13_Witness ==
    /\ call = "Process"
    /\ lastProcess.repeat
    /\ lastProcess.stale
    /\ lastProcess.err = NoErr
    /\ lastProcess.val # Nil
    /\ net.Layers[1].Weights # MakeCore(2, Len(net.Layers[1].Weights))

\* The squared error of datum d for the output the network gives for it.
SquaredErrorOf(d) ==
    LET actual == Network_Process(net, d.Inputs).val
    IN  [j \in 1..Len(d.Expected) |->
            Mul(d.Expected[j] - actual[j], d.Expected[j] - actual[j])]

\* C18: when Evaluate has returned, the weights are those of the network it
\* was given; if the network accepts every datum it returned no error and one
\* vector per datum, in the order of the data, whose entry j is the square of
\* expected j minus actual j; otherwise it returned an error and a nil
\* result, and the last datum it forwarded is the first the network does not
\* accept.
C18_Evaluate ==
    call = "Evaluate" =>
        /\ WeightsOf(net) = args
        /\ IF FirstBad = 0
           THEN /\ result.err = NoErr
                /\ Len(result.val) = Len(td)
                /\ \A i \in 1..Len(td) : result.val[i] = SquaredErrorOf(td[i])
           ELSE /\ result.err # NoErr
                /\ result.val = Nil
                /\ net.Layers[1].Inputs = td[FirstBad].Inputs

\* Evaluate returned two different non-zero error vectors for two datums, on
\* a network of two layers with non-zero weights.
C18_Witness ==
    /\ call = "Evaluate"
    /\ result.err = NoErr
    /\ Len(result.val) = 2
    /\ result.val[1] # result.val[2]
    /\ result.val[1][1] > 0 /\ result.val[2][1] > 0
    /\ Len(net.Layers) = 2
    /\ args[1] # MakeCore(2, 2)

\* --------------------------------------------------- specification: Shuffle

\* td.Shuffle(rounds), called by the caller on its data.
CallShuffle(rounds) ==
    /\ pc = "idle"
    /\ td' \in Shuffle(td, rounds)
    /\ call' = "Shuffle"
    /\ args' = [data |-> td, rounds |-> rounds]
    /\ UNCHANGED <<net, t, pc, result, cbIdx, iteration, mse, err, log, alpha0,
                   lastProcess, ncalls>>
    /\ UNCHANGED <<iterLocals, iterHistory>>

\* Three datums of one input and one output, no two alike.
ThreeDatums == [i \in 1..3 |-> Datum(<<(i * Scale) \div 4>>, <<(i - 1) * Scale>>)]

\* The data shuffled: none to all three of the datums.
ShuffleData == {SubSeq(ThreeDatums, 1, n) : n \in 0..3}

InitShuffle ==
    \E data \in ShuffleData, b \in BOOLEAN, rounds \in 0..MaxShuffleRounds :
        Constructed(MakeNetwork(<<1, 1>>), data,
                    [ZeroTrainer EXCEPT !.Alpha = Scale \div 2, !.BatchUpdate = b,
                                        !.ShuffleRounds = rounds])

NextShuffle ==
    \/ \E rounds \in (-1)..MaxShuffleRounds : CallShuffle(rounds)
    \/ CallOneIteration
    \/ OneIterationSteps

SpecShuffle == InitShuffle /\ [][NextShuffle]_vars

\* --------------------------------------------------- claims about Shuffle

\* a holds the elements of b, each as often as b does.
IsPermutation(a, b) ==
    /\ Len(a) = Len(b)
    /\ \A i \in 1..Len(a) :
          Cardinality({j \in 1..Len(a) : a[j] = a[i]})
              = Cardinality({j \in 1..Len(b) : b[j] = a[i]})

\* C30: after Shuffle(rounds) the data holds the datums it held before, each
\* as often and unchanged, in some order; it is as it was before when rounds
\* is 0 or less or the data is empty; and the caller's data changes only in a
\* call of Shuffle or when a OneIteration of a Trainer with ShuffleRounds > 0
\* begins, and then to a permutation of itself.
C30_Shuffle ==
    /\ [](call = "Shuffle" =>
            /\ IsPermutation(td, args.data)
            /\ (args.rounds <= 0 \/ args.data = <<>>) => td = args.data)
    /\ [][td' # td =>
            /\ \/ call' = "Shuffle"
               \/ call' = "OneIteration" /\ pc = "idle" /\ t.ShuffleRounds > 0
            /\ IsPermutation(td', td)]_vars

\* A OneIteration of a Trainer with ShuffleRounds 1, begun after a Shuffle(1)
\* of the three datums in their first order, is at the first datum of data in
\* which no datum is at its first place.
C30_Witness ==
    /\ call = "OneIteration"
    /\ t.ShuffleRounds = 1
    /\ pc = "datum" /\ datumIdx = 1
    /\ Len(td) = 3
    /\ DOMAIN args = {"data", "rounds"}
    /\ args.rounds = 1
    /\ args.data = ThreeDatums
    /\ \A i \in 1..3 : td[i] # ThreeDatums[i]
    /\ IsPermutation(td, ThreeDatums)

\* --------------------------------------- specification: ClassificationError

RECURSIVE AboveThreshold(_, _, _, _)
AboveThreshold(classes, rawValues, threshold, idx) ==
    IF idx > Len(rawValues) THEN <<>>
    ELSE (IF rawValues[idx] > threshold THEN <<classes[idx]>> ELSE <<>>)
         \o AboveThreshold(classes, rawValues, threshold, idx + 1)

\* A BasicClassifier made by MakeThresholdClassifier (the class of every
\* value above the threshold, in the order of the values) or by
\* MakeBestOfClassifier (the class of the first of the highest values); an
\* error when there are not as many values as classes.
Classify(classifier, rawValues) ==
    IF Len(rawValues) # Len(classifier.classes)
    THEN [val |-> Nil, err |-> "classify"]
    ELSE IF classifier.kind = "threshold"
    THEN [val |-> AboveThreshold(classifier.classes, rawValues,
                                 classifier.threshold, 1),
          err |-> NoErr]
    ELSE LET maxIdx == CHOOSE i \in 1..Len(rawValues) :
                 /\ \A j \in 1..Len(rawValues) : rawValues[j] <= rawValues[i]
                 /\ \A j \in 1..(i - 1) : rawValues[j] < rawValues[i]
         IN  [val |-> <<classifier.classes[maxIdx]>>, err |-> NoErr]

\* What one example adds to `failed`: 1.0 when the two label lists differ in
\* length, otherwise 1.0 for every index at which they differ (the continue
\* in the inner loop goes on with the next index).
FailedOf(expected, actual) ==
    IF Len(expected) # Len(actual) THEN 1
    ELSE Cardinality({idx \in 1..Len(expected) : actual[idx] # expected[idx]})

RECURSIVE ClassificationErrorFrom(_, _, _, _, _)
ClassificationErrorFrom(n, data, classifier, k, failed) ==
    IF k > Len(data)
    THEN [net |-> n, err |-> NoErr,
          val |-> IF Len(data) = 0 THEN NaN ELSE RoundDiv(failed * Scale, Len(data))]
    ELSE LET datum == data[k]
             expected == Classify(classifier, datum.Expected)
             r == Network_Process(n, datum.Inputs)
             actual == Classify(classifier, r.val)
         IN  IF expected.err # NoErr
             THEN [net |-> n, val |-> 0, err |-> expected.err]
             ELSE IF r.err # NoErr THEN [net |-> r.net, val |-> 0, err |-> r.err]
             ELSE IF actual.err # NoErr
             THEN [net |-> r.net, val |-> 0, err |-> actual.err]
             ELSE ClassificationErrorFrom(r.net, data, classifier, k + 1,
                                          failed + FailedOf(expected.val, actual.val))

\* ClassificationError: failed / float64(len(td)), or 0.0 and the first error
\* of a classifier or of the forward pass.
ClassificationError(n, data, classifier) ==
    ClassificationErrorFrom(n, data, classifier, 1, 0)

\* A call of ClassificationError by the caller; as Evaluate it is given a
\* copy of the Network that shares the caller's Layers.
CallClassificationError(classifier) ==
    /\ pc = "idle"
    /\ LET r == ClassificationError(net, td, classifier)
       IN  /\ net' = [r.net EXCEPT !.Outputs = net.Outputs]
           /\ result' = [val |-> r.val, err |-> r.err]
    /\ call' = "ClassificationError"
    /\ args' = classifier
    /\ UNCHANGED <<td, t, pc, cbIdx, iteration, mse, err, log, alpha0, lastProcess,
                   ncalls>>
    /\ UNCHANGED <<iterLocals, iterHistory>>

\* The classifiers given: a threshold classifier at 0.5 and a best-of
\* classifier, each over three classes.
Classifiers ==
    {[kind |-> "threshold", classes |-> <<"a", "b", "c">>, threshold |-> Scale \div 2],
     [kind |-> "bestof", classes |-> <<"a", "b", "c">>, threshold |-> 0]}

\* The datums classified: three of one input and three expected outputs whose
\* classes differ, and one of two inputs.
ClassifyPool ==
    { Datum(<<Scale>>, <<Scale, Scale, 0>>), Datum(<<0>>, <<0, Scale, Scale>>),
      Datum(<<Scale>>, <<0, 0, Scale>>), Datum(<<Scale, 0>>, <<0, 0, Scale>>) }

InitClassify ==
    \E sizes \in {<<1, 3>>, <<1, 2>>},
       data \in UNION {SeqsOfLen(ClassifyPool, n) : n \in 1..MaxData} :
        Constructed(MakeNetwork(sizes), data, ZeroTrainer)

NextClassify ==
    \/ \E seed \in 1..MaxSeed : Randomize(seed) /\ UNCHANGED ncalls
    \/ \E classifier \in Classifiers : CallClassificationError(classifier)

SpecClassify == InitClassify /\ [][NextClassify]_vars

\* ---------------------------------------- claims about ClassificationError

\* The examples whose classified output is not their classified expectation.
Misclassified ==
    {k \in 1..Len(td) :
        Classify(args, Network_Process(net, td[k].Inputs).val).val
            # Classify(args, td[k].Expected).val}

\* C29: ClassificationError returned, without an error, the number of
\* examples whose classified output differs from their classified
\* expectation divided by the number of examples: a value from 0 to 1, which
\* is 0 exactly when no example differs.
C29_ClassificationError ==
    (call = "ClassificationError" /\ result.err = NoErr) =>
        /\ result.val = RoundDiv(Cardinality(Misclassified) * Scale, Len(td))
        /\ result.val >= 0 /\ result.val <= Scale
        /\ result.val = 0 <=> Misclassified = {}

\* ------------------------------------- specification: sequences of calls

\* t.RequestTermination(), called by the caller between its other calls.
CallRequestTermination ==
    /\ pc = "idle"
    /\ t' = RequestTermination(t)
    /\ call' = "RequestTermination"
    /\ UNCHANGED <<net, td, pc, result>>
    /\ UNCHANGED <<cbIdx, iteration, mse, err, log, alpha0, args, lastProcess>>
    /\ UNCHANGED <<iterLocals, iterHistory>>

\* A call that returns at once is counted when it is made.
Counted == ncalls < MaxCalls /\ ncalls' = ncalls + 1

\* The caller goes on after a call of Train or OneIteration has returned: the
\* network, the data, the Trainer and what was returned stay, the locals of
\* the call are gone.
NextCall ==
    /\ pc = "done"
    /\ ncalls < MaxCalls
    /\ ncalls' = ncalls + 1
    /\ pc' = "idle"
    /\ cbIdx' = 0
    /\ iteration' = 0
    /\ mse' = Nil
    /\ err' = NoErr
    /\ log' = <<>>
    /\ deltas' = <<>>
    /\ updates' = <<>>
    /\ total' = Nil
    /\ datumIdx' = 0
    /\ layerIdx' = 0
    /\ outputs' = Nil
    /\ passWeights' = <<>>
    /\ datumWeights' = <<>>
    /\ exUpdates' = <<>>
    /\ processed' = <<>>
    /\ UNCHANGED <<net, td, t, call, result, alpha0, args, lastProcess>>

\* The layer widths of the network the calls are made on.
CallsSizes == <<1, 2, 1>>

\* The outcome of the generator in the calls of Randomize.
CallsSeed == 1

\* The caller's data: two datums that fit the networks, or one that fits and
\* one with two inputs.
CallsData ==
    { <<Datum(<<Scale>>, <<Scale>>), Datum(<<0>>, <<0>>)>>,
      <<Datum(<<Scale>>, <<Scale>>), Datum(<<Scale, 0>>, <<0>>)>> }

\* The input vectors given to Process between the other calls.
CallsInputs == {<<Scale>>, <<Scale, 0>>}

\* The Trainer of the calls: one callback of each kind, the iteration-end
\* callback being AddSimpleStoppingCriteria(1, 0.0).
CallsTrainer(b) ==
    [ZeroTrainer EXCEPT
        !.BatchUpdate = b,
        !.startTrainingHandlers = <<Handler(1, "noop", 0, 0)>>,
        !.endOfIterationHandlers = <<Handler(1, "simple", 1, 0)>>,
        !.endTrainingHandlers = <<Handler(1, "noop", 0, 0)>>]

InitCalls ==
    \E data \in CallsData, b \in BOOLEAN :
        Constructed(MakeNetwork(CallsSizes), data, CallsTrainer(b))

NextCalls ==
    \/ Randomize(CallsSeed) /\ Counted
    \/ \E inputs \in CallsInputs : CallProcess(inputs) /\ Counted
    \/ CallEvaluate /\ Counted
    \/ CallRequestTermination /\ Counted
    \/ CallOneIteration
    \/ CallTrain
    \/ StartHandler
    \/ StartHandlersDone
    \/ LoopBegin
    \/ OneIterationSteps
    \/ IterHandler
    \/ LoopCheck
    \/ EndHandler
    \/ TrainReturn
    \/ NextCall

SpecCalls == InitCalls /\ [][NextCalls]_vars

\* ------------------------------------------ claims about sequences of calls

\* The row and column counts of every layer's weight matrix.
ShapeOf(n) ==
    [i \in 1..Len(n.Layers) |->
        LET w == n.Layers[i].Weights
        IN  <<Len(w), IF w = <<>> THEN 0 ELSE Len(w[1])>>]

\* Every weight matrix has rows of one length, with a bias column, and as
\* many rows as the next layer's matrix has columns without the bias.
WellShaped(n) ==
    /\ \A i \in 1..Len(n.Layers) :
          LET w == n.Layers[i].Weights
          IN  /\ Len(w) >= 1
              /\ \A row \in 1..Len(w) : Len(w[row]) = Len(w[1])
              /\ Len(w[1]) >= 2
    /\ \A i \in 1..(Len(n.Layers) - 1) :
          ShapeOf(n)[i][1] = ShapeOf(n)[i + 1][2] - 1

\* C23: whatever calls of Randomize, Process, Evaluate, OneIteration and
\* Train are made on a network built by MakeNetwork, failing or not, online
\* or batch, no step changes the row or column count of a layer's weight
\* matrix, every matrix stays rectangular, and each layer has as many outputs
\* as the next layer has inputs.
C23_ShapeKept ==
    /\ [][ShapeOf(net') = ShapeOf(net)]_vars
    /\ [](WellShaped(net) /\ ShapeOf(net) = ShapeOf(MakeNetwork(CallsSizes)))

\* After a Randomize and a failed Process, a second call of Train or
\* OneIteration has returned, and the weights are no longer the randomized
\* ones.
C23_Witness ==
    /\ pc = "done"
    /\ ncalls = MaxCalls
    /\ lastProcess.err \notin {"none", NoErr}
    /\ WeightsOf(net) # WeightsOf(MakeNetwork(CallsSizes))
    /\ WeightsOf(net) # WeightsOf(Network_Randomize(MakeNetwork(CallsSizes), CallsSeed))
    /\ WeightsOf(net) # lastProcess.weights

\* C27: no step clears a Trainer's termination flag, and a call of Train
\* made with the flag set runs one iteration and no second: when it has
\* returned there is one pass, followed by every iteration-end callback, and
\* after these the training-end callbacks when the pass did not fail.
C27_TerminationSticks ==
    /\ [][t.requestTerminate => t'.requestTerminate]_vars
    /\ []((call = "Train" /\ pc # "idle" /\ args.requestTerminate) =>
            /\ iteration <= 1
            /\ pc = "done" =>
                  /\ Cardinality(LogOf("pass")) = 1
                  /\ Cardinality(LogOf("iter")) = NumIter
                  /\ \A i \in LogOf("iter") : \E j \in LogOf("pass") : j < i
                  /\ Cardinality(LogOf("end")) =
                         IF result.err = NoErr THEN NumEnd ELSE 0)

\* A Train called with the flag set has returned without an error after one
\* iteration whose error was not small and whose stopping criterion asked
\* for nothing.
C27_Witness ==
    /\ call = "Train" /\ pc = "done"
    /\ args.requestTerminate
    /\ result.err = NoErr
    /\ iteration = 1
    /\ Combine(mse) > Scale \div 10
    /\ \A i \in LogOf("iter") : ~log[i].req
    /\ Cardinality(LogOf("end")) = 1

\* ------------------------------------- specification: the library's functions

\* What a call of one of the library's functions leaves of the caller's state:
\* the name of the function, its arguments and what it returned.
Called(name, arguments, returned) ==
    /\ pc = "idle"
    /\ call = "none"
    /\ call' = name
    /\ args' = arguments
    /\ result' = returned
    /\ UNCHANGED <<lastProcess, ncalls>>
    /\ UNCHANGED <<t, pc, cbIdx, iteration, mse, err, log, alpha0>>
    /\ UNCHANGED <<iterLocals, iterHistory>>

\* The lists of layer widths given to MakeNetwork: 2 to MaxSizes widths, each
\* from 1 to MaxWidth.
MakeSizes == UNION {SeqsOfLen(1..MaxWidth, n) : n \in 2..MaxSizes}

\* net := MakeNetwork(sizes...)
CallMakeNetwork(sizes) ==
    /\ Called("MakeNetwork", sizes, [val |-> Nil, err |-> NoErr])
    /\ net' = MakeNetwork(sizes)
    /\ UNCHANGED td

\* The entries of the matrices and vectors given to Core's methods: -0.5 and 1.
CoreValues == {-(Scale \div 2), Scale}

\* The matrices given to Core's methods: 1 or 2 rows of 0, 1 or 2 columns.
Cores ==
    UNION {SeqsOfLen(SeqsOfLen(CoreValues, cols), rows) :
              rows \in 1..2, cols \in 0..2}

\* The vectors given to Core.Process: every length from 0 to MaxInputLen.
CoreInputs == UNION {SeqsOfLen(CoreValues, n) : n \in 0..MaxInputLen}

\* c.Process(inputs): the call leaves c as it was, the method assigning to no
\* entry of it.
CallCoreProcess(c, inputs) ==
    /\ Called("Core.Process", [c |-> c, inputs |-> inputs],
              [val |-> Core_Process(c, inputs).val,
               err |-> Core_Process(c, inputs).err, c |-> c])
    /\ UNCHANGED <<net, td>>

\* c.Add(other): the call leaves c and other as they were, the method
\* writing to the matrix it made alone.
CallCoreAdd(c, other) ==
    /\ Called("Core.Add", [c |-> c, other |-> other],
              [val |-> Core_Add(c, other).val,
               err |-> Core_Add(c, other).err, c |-> c, other |-> other])
    /\ UNCHANGED <<net, td>>

\* Five datums of two inputs, no two alike.
FiveDatums ==
    [i \in 1..5 |-> Datum(<<i * Scale, ((6 - i) * Scale) \div 2>>, <<i * Scale>>)]

\* The data Split and Scale are called on: the first 0 to 5 of the five
\* datums, two datums whose inputs are all the same value, and two datums of
\* which the second has one input only.
MathData ==
    {SubSeq(FiveDatums, 1, n) : n \in 0..5}
    \cup {<<Datum(<<Scale, Scale>>, <<0>>), Datum(<<Scale, Scale>>, <<Scale>>)>>,
          <<Datum(<<0, Scale>>, <<0>>), Datum(<<Scale>>, <<Scale>>)>>}

\* The fractions given to Split: -0.001, 0, 0.001, 0.25, 0.5, 0.999, 1, 1.001
\* and 2.
Fractions ==
    {-1, 0, 1, Scale \div 4, Scale \div 2, Scale - 1, Scale, Scale + 1, 2 * Scale}

\* The column lists given to Scale: 0 to 2 indices from -1 to 2.
ScaleCols == UNION {SeqsOfLen((-1)..2, n) : n \in 0..2}

\* The collections Total and Average are called on: 1 or 2 vectors of 0 to 2
\* entries from 1.0 to 4.0.
ErrorSets ==
    UNION {SeqsOfLen(SeqsOfLen({k * Scale : k \in 1..4}, len), n) :
              len \in 0..2, n \in 1..2}

\* left, right, err := td.Split(fraction); td is as it was, Split writing to
\* no datum.
CallSplit(fraction) ==
    /\ Called("TrainingData.Split", [data |-> td, fraction |-> fraction],
              TrainingData_Split(td, fraction))
    /\ UNCHANGED <<net, td>>

\* err := td.Scale(cols...)
CallScale(cols) ==
    /\ Called("TrainingData.Scale", [data |-> td, cols |-> cols],
              [val |-> Nil, err |-> TrainingData_Scale(td, cols).err])
    /\ td' = TrainingData_Scale(td, cols).data
    /\ UNCHANGED net

\* s.Total(): s is as it was, the vectors being accumulated into a new one.
CallTotal(s) ==
    /\ Called("AllErrors.Total", s, [val |-> AllErrors_Total(s), err |-> NoErr, s |-> s])
    /\ UNCHANGED <<net, td>>

\* s.Average(): s is as it was, the division being done on the new total.
CallAverage(s) ==
    /\ Called("AllErrors.Average", s,
              [val |-> AllErrors_Average(s), err |-> NoErr, s |-> s])
    /\ UNCHANGED <<net, td>>

\* err := l.UpdateWeights(updates), for a layer l with the weights c.
CallUpdateWeights(c, other) ==
    /\ Called("Layer.UpdateWeights", [weights |-> c, updates |-> other],
              LET r == Layer_UpdateWeights(
                           [Weights |-> c, Inputs |-> Nil, Outputs |-> Nil], other)
              IN  [weights |-> r.layer.Weights, err |-> r.err])
    /\ UNCHANGED <<net, td>>

InitMath ==
    \E data \in MathData : Constructed(MakeNetwork(<<1, 1>>), data, ZeroTrainer)

NextMath ==
    \/ \E sizes \in MakeSizes : CallMakeNetwork(sizes)
    \/ \E c \in Cores, inputs \in CoreInputs : CallCoreProcess(c, inputs)
    \/ \E c \in Cores, other \in Cores : CallCoreAdd(c, other)
    \/ \E fraction \in Fractions : CallSplit(fraction)
    \/ \E cols \in ScaleCols : CallScale(cols)
    \/ \E s \in ErrorSets : CallTotal(s)
    \/ \E s \in ErrorSets : CallAverage(s)
    \/ \E c \in Cores, other \in Cores : CallUpdateWeights(c, other)

SpecMath == InitMath /\ [][NextMath]_vars

\* ------------------------------------------------ claims about MakeNetwork

\* The number of entries of the first i layers' weight matrices.
RECURSIVE CountWeights(_, _)
CountWeights(n, i) ==
    IF i = 0 THEN 0
    ELSE CountWeights(n, i - 1)
         + SumSeq([r \in 1..Len(n.Layers[i].Weights) |-> Len(n.Layers[i].Weights[r])])

\* The sum over the first i layers of (s(i) + 1) * s(i + 1).
RECURSIVE ExpectedWeights(_, _)
ExpectedWeights(sizes, i) ==
    IF i = 0 THEN 0
    ELSE ExpectedWeights(sizes, i - 1) + (sizes[i] + 1) * sizes[i + 1]

C14_CoreProcess ==
    call = "Core.Process" =>
        LET c == args.c
            inputs == args.inputs
        IN  /\ result.err # NoErr <=> Len(inputs) # Len(c[1])
            /\ result.err = NoErr =>
                  /\ Len(result.val) = Len(c)
                  /\ \A r \in 1..Len(c) :
                        result.val[r] =
                            SumSeq([k \in 1..Len(inputs) |-> Mul(c[r][k], inputs[k])])
            /\ result.c = c

\* Core.Process returned, for a matrix of two rows of two columns, a vector
\* with an entry above 1 and a negative entry.
C14_Witness ==
    /\ call = "Core.Process"
    /\ result.err = NoErr
    /\ Len(args.c) = 2 /\ Len(args.inputs) = 2
    /\ result.val[1] > Scale
    /\ result.val[2] < 0

\* C15: Core.Add returned an error exactly when the two matrices differ in
\* the number of rows or of columns; without an error it returned a matrix
\* whose entry [r][c] is the sum of the two matrices' entries [r][c], and the
\* two matrices are as before.
C15_CoreAdd ==
    call = "Core.Add" =>
        LET c == args.c
            other == args.other
        IN  /\ result.err # NoErr <=>
                  (Len(c) # Len(other) \/ Len(c[1]) # Len(other[1]))
            /\ result.err = NoErr =>
                  /\ Len(result.val) = Len(c)
                  /\ \A r \in 1..Len(c) :
                        /\ Len(result.val[r]) = Len(c[r])
                        /\ \A k \in 1..Len(c[r]) :
                              result.val[r][k] = c[r][k] + other[r][k]
            /\ result.c = c
            /\ result.other = other

\* Core.Add returned the sum of two different matrices of two rows of two
\* columns, different from both.
C15_Witness ==
    /\ call = "Core.Add"
    /\ result.err = NoErr
    /\ Len(args.c) = 2 /\ Len(args.c[1]) = 2
    /\ args.c # args.other
    /\ result.val # args.c /\ result.val # args.other

\* ---------------------------------------------- claims about TrainingData

\* The least integer that is at least n * fraction: ceil(n x fraction).
CeilOfProduct(n, fraction) ==
    CHOOSE k \in 0..n : k * Scale >= n * fraction /\ (k - 1) * Scale < n * fraction

\* C16: Split returned an error exactly when the fraction is below 0 or above
\* 1; without an error the left part has ceil(n x fraction) datums, the right
\* part the other n - ceil(n x fraction), and the left part followed by the
\* right part is the data in its order; 5 datums and the fraction 0.5 give 3
\* and 2.
C16_Split ==
    call = "TrainingData.Split" =>
        LET n == Len(args.data)
            fraction == args.fraction
        IN  /\ result.err # NoErr <=> (fraction < 0 \/ fraction > Scale)
            /\ result.err = NoErr =>
                  /\ Len(result.left) = CeilOfProduct(n, fraction)
                  /\ Len(result.right) = n - CeilOfProduct(n, fraction)
                  /\ result.left \o result.right = args.data
                  /\ (n = 5 /\ 2 * fraction = Scale) =>
                        (Len(result.left) = 3 /\ Len(result.right) = 2)
            /\ td = args.data

\* Split(0.5) returned the first three and the last two of five datums.
C16_Witness ==
    /\ call = "TrainingData.Split"
    /\ Len(args.data) = 5
    /\ args.fraction = Scale \div 2
    /\ result.err = NoErr
    /\ result.left = SubSeq(td, 1, 3)
    /\ result.right = SubSeq(td, 4, 5)

\* C17: when Scale was given, for data that is not empty, a column index that
\* is negative or not below the length of the input vector, it returned an
\* error and every datum is as it was before the call.
C17_ScaleValidates ==
    (/\ call = "TrainingData.Scale"
     /\ args.data # <<>>
     /\ \E k \in 1..Len(args.cols) :
           args.cols[k] < 0 \/ args.cols[k] >= Len(args.data[1].Inputs))
    => (result.err = "scale" /\ td = args.data)

\* Scale returned an error for a column index equal to the input length that
\* came after a valid index, and left two datums of different inputs alone.
C17_Witness ==
    /\ call = "TrainingData.Scale"
    /\ args.cols = <<0, 2>>
    /\ Len(args.data) = 2
    /\ Len(args.data[1].Inputs) = 2
    /\ args.data[1].Inputs[1] # args.data[2].Inputs[1]
    /\ result.err = "scale"
    /\ td = args.data

\* -------------------------------------------------- claims about AllErrors

\* The sum of entry i of the vectors of s.
EntrySum(s, i) == SumSeq([k \in 1..Len(s) |-> s[k][i]])

\* C19: for a collection of one or more vectors of one length, Total returned
\* the elementwise sum of the vectors and Average that sum divided entry by
\* entry by the number of vectors; [[1,2],[3,4]] gives [4,6] and [2,3]; the
\* vectors of the collection are as before.
C19_TotalAverage ==
    /\ call = "AllErrors.Total" =>
          /\ result.val = [i \in 1..Len(args[1]) |-> EntrySum(args, i)]
          /\ args = <<<<Scale, 2 * Scale>>, <<3 * Scale, 4 * Scale>>>> =>
                result.val = <<4 * Scale, 6 * Scale>>
          /\ result.s = args
    /\ call = "AllErrors.Average" =>
          /\ Len(result.val) = Len(args[1])
          /\ \A i \in 1..Len(args[1]) : result.val[i] * Len(args) = EntrySum(args, i)
          /\ args = <<<<Scale, 2 * Scale>>, <<3 * Scale, 4 * Scale>>>> =>
                result.val = <<2 * Scale, 3 * Scale>>
          /\ result.s = args

\* Average returned [2, 3] for [[1, 2], [3, 4]].
C19_Witness ==
    /\ call = "AllErrors.Average"
    /\ args = <<<<Scale, 2 * Scale>>, <<3 * Scale, 4 * Scale>>>>
    /\ result.val = <<2 * Scale, 3 * Scale>>

\* ------------------------------------------------------ claims about Layer

\* C24: when Layer.UpdateWeights was given an update whose number of rows or
\* of columns differs from the weights', it returned an error and the layer's
\* weights are those it had before the call.
C24_UpdateWeightsKeepsWeights ==
    (/\ call = "Layer.UpdateWeights"
     /\ \/ Len(args.updates) # Len(args.weights)
        \/ Len(args.updates[1]) # Len(args.weights[1]))
    => (result.err # NoErr /\ result.weights = args.weights)

====
